---------------------------- MODULE Spec2Model ----------------------------
(***************************************************************************)
(* State-machine model of the swipeable video carousels of the repository: *)
(*   - Carousel (src/unnamed/part_002): drag / settle / autoplay /         *)
(*     indicator index machine;                                            *)
(*   - VideoPreloader and OptimizedCarousel                                *)
(*     (src/src/components/OptimizedCarousel.jsx): bounded preload cache   *)
(*     driven by the carousel's index changes;                             *)
(*   - YouTubeAPIManager, YouTubePlayer and YouTubeShortsCarousel          *)
(*     (src/src/components/YouTubeShortsCarousel.jsx): per-item player     *)
(*     lifecycle on top of the embed provider.                             *)
(* One event of the UI event loop (a handler, the re-render it causes and  *)
(* the effects of that render, and the continuations of promises it        *)
(* resolves) is one action.  Asynchronous completions (animation settle,   *)
(* timers, media events, provider notifications) are separate actions.     *)
(***************************************************************************)
EXTENDS Integers, Sequences, FiniteSets, TLC

VARIABLES
    \* ---- Carousel (src/unnamed/part_002) ----
    itemsLength,    \* items.length (prop)
    loop,           \* prop
    autoplay,       \* prop
    pauseOnHover,   \* prop
    currentIndex,   \* useState(0)
    isDragging,     \* isDragging.current
    isHovered,      \* useState(false)
    y,              \* target of the last animate(y, ...) call
    settles,        \* pending animate(...).then callbacks: captured newIndex
    overtaken       \* history: per pending callback, whether an indicator tap or
                    \* an autoplay tick has set the index since its release

carVars == <<itemsLength, loop, autoplay, pauseOnHover, currentIndex,
             isDragging, isHovered, y, settles, overtaken>>

VARIABLES
    \* ---- VideoPreloader and OptimizedCarousel ----
    maxCacheSize,     \* VideoPreloader.maxCacheSize (constructor argument)
    cache,            \* VideoPreloader.cache: the cached urls, oldest timestamp first
    loadingPromises,  \* VideoPreloader.loadingPromises: url -> operation, 0 = none
    ops,              \* the load operations that can still act, by number
    ocItemsLength,    \* items.length (prop)
    ocCurrentIndex,   \* useState(0)
    ocIsDragging,     \* isDragging.current
    ocSettles,        \* pending animate(...).then callbacks that will commit
    loadedVideos,     \* useState(new Set([0]))
    tasks,            \* suspended preloadVideos() invocations
    ocMounted,        \* the component is mounted
    ocCommits,        \* history: index commits so far (bounded by MaxCommits)
    touchOrder,       \* history: cached keys by last use, least recent first
    preloadedSinceClear  \* history: preload was called after the clear() of unmount

preVars == <<maxCacheSize, cache, loadingPromises, ops, ocItemsLength,
             ocCurrentIndex, ocIsDragging, ocSettles, loadedVideos, tasks,
             ocMounted, ocCommits, touchOrder, preloadedSinceClear>>

VARIABLES
    \* ---- YouTubeAPIManager, YouTubePlayer, YouTubeShortsCarousel ----
    ytLength,        \* videoIds.length
    ytCurrentIndex,  \* useState(0)
    ytIsDragging,    \* isDragging.current
    ytSettles,       \* pending animate(...).then callbacks that will commit
    ytCommits,       \* history: index commits so far (bounded by MaxYtCommits)
    ytIsMuted,       \* useState(true)
    ytMounted,       \* the carousel is mounted
    ytIsLoaded,      \* YouTubeAPIManager.isLoaded
    callbacks,       \* YouTubeAPIManager.callbacks: createPlayer() calls awaiting load()
    players,         \* YouTubeAPIManager.players: item -> player, 0 = none
    playerState,     \* per item: useState('facade')
    player,          \* per item: useState(null); 0 = null, Destroyed = a destroyed player
    hasCleanup,      \* per item: the last run of the creation effect returned a cleanup
    handles,         \* the provider players that can still act, by number
    uncaught,        \* an exception of a provider call has left the program's code
    faults           \* history: events in which provider calls threw (bounded by MaxFaults)

ytVars == <<ytLength, ytCurrentIndex, ytIsDragging, ytSettles, ytCommits,
            ytIsMuted, ytMounted, ytIsLoaded, callbacks, players, playerState,
            player, hasCleanup, handles, uncaught, faults>>

VARIABLES
    \* ---- OptimizedCarousel and its VideoItems ----
    viItemsLength,   \* items.length
    viCurrentIndex,  \* useState(0)
    viIsDragging,    \* isDragging.current
    viSettles,       \* pending animate(...).then callbacks that will commit
    viCommits,       \* history: index commits so far (bounded by MaxViCommits)
    viLoadedVideos,  \* useState(new Set([0]))
    preloading,      \* the currentIndex of each preloadVideos() still awaiting
    isReady,         \* the items whose VideoItem has isReady
    hasError         \* the items whose VideoItem has hasError

vidVars == <<viItemsLength, viCurrentIndex, viIsDragging, viSettles, viCommits,
             viLoadedVideos, preloading, isReady, hasError>>

VARIABLES
    \* ---- the visibleIndices computations, as functions of their inputs ----
    winLength,       \* items.length / videoIds.length
    winIndex,        \* currentIndex
    ocVisible,       \* visibleIndices of OptimizedCarousel for these inputs
    ytVisible,       \* visibleIndices of YouTubeShortsCarousel for these inputs
    ocPreloads       \* the items preloadVideos() calls preloader.preload for

winVars == <<winLength, winIndex, ocVisible, ytVisible, ocPreloads>>

VARIABLES
    \* ---- the getNextIndex functions, applied to a drag release ----
    gesIndex,        \* currentIndex
    gesOffset,       \* info.offset.y of the release
    gesVelocity,     \* info.velocity.y of the release
    gesLength,       \* itemsLength / videoIds.length
    gesLoop,         \* the loop prop of Carousel
    carNewIndex,     \* newIndex of Carousel's handleDragEnd
    ytNewIndex,      \* newIndex of YouTubeShortsCarousel's handleDragEnd
    ocNewIndex,      \* newIndex of OptimizedCarousel's handleDragEnd
    carAutoIndex     \* the index set by a tick of Carousel's autoplay interval

VARIABLES
    \* ---- extractYouTubeId and the videoIds memo ----
    exUrl,           \* the argument of extractYouTubeId
    exId,            \* its return value, once exDone
    exDone,          \* extractYouTubeId(exUrl) has returned
    exAgain,         \* extractYouTubeId applied to its own result, Null before
    exItems,         \* the items prop of YouTubeShortsCarousel
    exVideoIds,      \* the videoIds memo, once exMemoDone
    exMemoDone       \* the memo has been computed

resVars == <<exUrl, exId, exDone, exAgain, exItems, exVideoIds, exMemoDone>>

VARIABLES
    \* ---- App (src/src/App.jsx) ----
    appCategory,     \* useState('Stories')
    appLoading,      \* useState(true), as last rendered
    appData,         \* useState(null): the category and reels of the response kept
    appError,        \* useState(null): the category whose request failed
    appPending,      \* fetch requests in flight, per category
    appQueued        \* setLoading(true) of an effect, not rendered yet

appVars == <<appCategory, appLoading, appData, appError, appPending, appQueued>>

VARIABLES
    \* ---- YouTubePlayer (src/src/components/YouTubePlayer.jsx) ----
    ypApiReady,      \* apiReady of useYouTubeApi
    ypVideoId,       \* the videoId prop
    ypPlayer,        \* playerRef.current is a player
    ypReady,         \* the player has called onReady
    ypState,         \* getPlayerState() of the player
    docHidden,       \* document.hidden
    ypMounted,       \* the component is mounted
    playingAtHide    \* history: the video was playing when the tab was hidden

ypVars == <<ypApiReady, ypVideoId, ypPlayer, ypReady, ypState, docHidden,
            ypMounted, playingAtHide>>

VARIABLES
    \* ---- YouTubeAPIManager.load() ----
    apiIsLoaded,     \* this.isLoaded
    apiIsLoading,    \* this.isLoading
    apiCallbacks,    \* this.callbacks: the promises to resolve, in order
    apiScripts,      \* the iframe_api script tags inserted in the document
    apiReadyCalls,   \* the scripts that have called window.onYouTubeIframeAPIReady
    apiPromises      \* the promises load() has returned, in the order of the calls

apiVars == <<apiIsLoaded, apiIsLoading, apiCallbacks, apiScripts,
             apiReadyCalls, apiPromises>>

gesVars == <<gesIndex, gesOffset, gesVelocity, gesLength, gesLoop,
             carNewIndex, ytNewIndex, ocNewIndex, carAutoIndex>>

\* What each component leaves alone.
NotCarousel == <<preVars, ytVars, vidVars, winVars, gesVars, resVars, appVars, ypVars, apiVars>>
NotPreloader == <<carVars, ytVars, vidVars, winVars, gesVars, resVars, appVars, ypVars, apiVars>>
NotYouTube == <<carVars, preVars, vidVars, winVars, gesVars, resVars, appVars, ypVars, apiVars>>
NotVideoItems == <<carVars, preVars, ytVars, winVars, gesVars, resVars, appVars, ypVars, apiVars>>
NotWindow == <<carVars, preVars, ytVars, vidVars, gesVars, resVars, appVars, ypVars, apiVars>>
NotGesture == <<carVars, preVars, ytVars, vidVars, winVars, resVars, appVars, ypVars, apiVars>>
NotResolver == <<carVars, preVars, ytVars, vidVars, winVars, gesVars, appVars, ypVars, apiVars>>
NotApp == <<carVars, preVars, ytVars, vidVars, winVars, gesVars, resVars, ypVars, apiVars>>
NotPlayer == <<carVars, preVars, ytVars, vidVars, winVars, gesVars, resVars, appVars, apiVars>>
NotLoader == <<carVars, preVars, ytVars, vidVars, winVars, gesVars, resVars, appVars, ypVars>>

vars == <<carVars, preVars, ytVars, vidVars, winVars, gesVars, resVars, appVars, ypVars, apiVars>>

---------------------------------------------------------------------------
\* Bounds of the model.
MaxItems == 3
MaxSettles == 2

\* Program constants of Carousel.
DRAG_BUFFER == 100
VELOCITY_THRESHOLD == 300
BaseWidth == 300

Min(a, b) == IF a < b THEN a ELSE b
Max(a, b) == IF a > b THEN a ELSE b

\* Representative drag offsets and release velocities around the thresholds.
Offsets == {-(DRAG_BUFFER + 1), -DRAG_BUFFER, 0, DRAG_BUFFER, DRAG_BUFFER + 1}
Velocities == {-(VELOCITY_THRESHOLD + 1), -VELOCITY_THRESHOLD, 0,
               VELOCITY_THRESHOLD, VELOCITY_THRESHOLD + 1}

\* getNextIndex asking for both signals, && for || (mutation).
getNextIndexBothSignals(cur, offset, velocity, length, lp) ==
    IF length = 0 THEN cur
    ELSE IF offset < -DRAG_BUFFER /\ velocity < -VELOCITY_THRESHOLD
         THEN (IF lp THEN (cur + 1 + length) % length
                     ELSE Min(cur + 1, length - 1))
    ELSE IF offset > DRAG_BUFFER /\ velocity > VELOCITY_THRESHOLD
         THEN (IF lp THEN (cur - 1 + length) % length
                     ELSE Max(cur - 1, 0))
    ELSE cur

\* getNextIndex without Math.min and Math.max in the branches without loop
\* (mutation).
getNextIndexNoClamp(cur, offset, velocity, length, lp) ==
    IF length = 0 THEN cur
    ELSE IF offset < -DRAG_BUFFER \/ velocity < -VELOCITY_THRESHOLD
         THEN (IF lp THEN (cur + 1 + length) % length ELSE cur + 1)
    ELSE IF offset > DRAG_BUFFER \/ velocity > VELOCITY_THRESHOLD
         THEN (IF lp THEN (cur - 1 + length) % length ELSE cur - 1)
    ELSE cur

\* getNextIndex testing the backward thresholds first (mutation).
getNextIndexBackwardFirst(cur, offset, velocity, length, lp) ==
    IF length = 0 THEN cur
    ELSE IF offset > DRAG_BUFFER \/ velocity > VELOCITY_THRESHOLD
         THEN (IF lp THEN (cur - 1 + length) % length
                     ELSE Max(cur - 1, 0))
    ELSE IF offset < -DRAG_BUFFER \/ velocity < -VELOCITY_THRESHOLD
         THEN (IF lp THEN (cur + 1 + length) % length
                     ELSE Min(cur + 1, length - 1))
    ELSE cur

\* getNextIndex(currentIndex, offset, velocity, length, loop)
getNextIndex(cur, offset, velocity, length, lp) ==
    IF length = 0 THEN cur
    ELSE IF offset < -DRAG_BUFFER \/ velocity < -VELOCITY_THRESHOLD
         THEN (IF lp THEN (cur + 1 + length) % length
                     ELSE Min(cur + 1, length - 1))
    ELSE IF offset > DRAG_BUFFER \/ velocity > VELOCITY_THRESHOLD
         THEN (IF lp THEN (cur - 1 + length) % length
                     ELSE Max(cur - 1, 0))
    ELSE cur

\* getAutoPlayIndex without the clamp at the last item (mutation of the
\* non-loop branch).
getAutoPlayIndexNoClamp(cur, length, lp) ==
    IF length = 0 THEN cur
    ELSE IF lp THEN (cur + 1) % length
    ELSE cur + 1

\* getAutoPlayIndex without the loop branch: the tick stops at the last item
\* (mutation).
getAutoPlayIndexNoLoop(cur, length, lp) ==
    IF length = 0 THEN cur
    ELSE Min(cur + 1, length - 1)

\* getAutoPlayIndex(currentIndex, length, loop)
getAutoPlayIndex(cur, length, lp) ==
    IF length = 0 THEN cur
    ELSE IF lp THEN (cur + 1) % length
    ELSE Min(cur + 1, length - 1)

\* effectiveIndex = itemsLength ? currentIndex % itemsLength : 0
effectiveIndex(cur, length) == IF length # 0 THEN cur % length ELSE 0

\* trackItemOffset = itemHeight = baseWidth
trackItemOffset == BaseWidth

\* The "sync y position" effect without its animate call (mutation).
SyncYNoAnimate(oldIndex, newIndex, dragging, oldY) ==
    oldY

\* The "sync y position" effect: runs when effectiveIndex changed in this
\* render; animates y to the resting offset unless a drag is in progress.
SyncY(oldIndex, newIndex, dragging, oldY) ==
    IF effectiveIndex(oldIndex, itemsLength) # effectiveIndex(newIndex, itemsLength)
       /\ ~dragging
    THEN 0 - (effectiveIndex(newIndex, itemsLength) * trackItemOffset)
    ELSE oldY

CarInit ==
    /\ itemsLength \in 0..MaxItems
    /\ loop \in BOOLEAN
    /\ autoplay \in BOOLEAN
    /\ pauseOnHover \in BOOLEAN
    /\ currentIndex = 0
    /\ isDragging = FALSE
    /\ isHovered = FALSE
    /\ y = 0
    /\ settles = << >>
    /\ overtaken = << >>

\* handleDragStart
handleDragStart ==
    /\ ~isDragging
    /\ isDragging' = TRUE
    /\ UNCHANGED <<itemsLength, loop, autoplay, pauseOnHover, currentIndex,
                   isHovered, y, settles, overtaken>>
    /\ UNCHANGED NotCarousel

\* handleDragEnd: clears the flag at once, starts the settle animation and
\* chains the index commit after it.
handleDragEnd ==
    /\ isDragging
    /\ Len(settles) < MaxSettles
    /\ \E offset \in Offsets, velocity \in Velocities :
         LET newIndex == getNextIndex(currentIndex, offset, velocity,
                                      itemsLength, loop)
         IN /\ isDragging' = FALSE
            /\ y' = 0 - (effectiveIndex(newIndex, itemsLength) * trackItemOffset)
            /\ settles' = Append(settles, newIndex)
            /\ overtaken' = Append(overtaken, FALSE)
    /\ UNCHANGED <<itemsLength, loop, autoplay, pauseOnHover, currentIndex,
                   isHovered>>
    /\ UNCHANGED NotCarousel

RemoveAt(s, k) == [j \in 1..(Len(s) - 1) |-> IF j < k THEN s[j] ELSE s[j + 1]]

\* animate(...).then(() => setCurrentIndex(newIndex)) of an earlier release.
SettleComplete ==
    /\ \E k \in 1..Len(settles) :
         /\ currentIndex' = settles[k]
         /\ settles' = RemoveAt(settles, k)
         /\ overtaken' = RemoveAt(overtaken, k)
         /\ y' = SyncY(currentIndex, settles[k], isDragging, y)
    /\ UNCHANGED <<itemsLength, loop, autoplay, pauseOnHover, isDragging,
                   isHovered>>
    /\ UNCHANGED NotCarousel

\* The autoplay interval: installed unless !autoplay, hover-paused or
\* itemsLength <= 1.
AutoplayEnabled ==
    ~(~autoplay \/ (pauseOnHover /\ isHovered) \/ itemsLength <= 1)

AutoplayTick ==
    /\ AutoplayEnabled
    /\ currentIndex' = getAutoPlayIndex(currentIndex, itemsLength, loop)
    /\ y' = SyncY(currentIndex, currentIndex', isDragging, y)
    /\ overtaken' = [k \in 1..Len(overtaken) |-> TRUE]
    /\ UNCHANGED <<itemsLength, loop, autoplay, pauseOnHover, isDragging,
                   isHovered, settles>>
    /\ UNCHANGED NotCarousel

\* handleIndicatorClick(index): one indicator per item.
handleIndicatorClick ==
    /\ \E index \in 0..(itemsLength - 1) :
         /\ currentIndex' = index
         /\ y' = SyncY(currentIndex, index, isDragging, y)
    /\ overtaken' = [k \in 1..Len(overtaken) |-> TRUE]
    /\ UNCHANGED <<itemsLength, loop, autoplay, pauseOnHover, isDragging,
                   isHovered, settles>>
    /\ UNCHANGED NotCarousel

\* mouseenter / mouseleave listeners, registered only with pauseOnHover.
handleMouseEnter ==
    /\ pauseOnHover
    /\ ~isHovered
    /\ isHovered' = TRUE
    /\ UNCHANGED <<itemsLength, loop, autoplay, pauseOnHover, currentIndex,
                   isDragging, y, settles, overtaken>>
    /\ UNCHANGED NotCarousel

handleMouseLeave ==
    /\ pauseOnHover
    /\ isHovered
    /\ isHovered' = FALSE
    /\ UNCHANGED <<itemsLength, loop, autoplay, pauseOnHover, currentIndex,
                   isDragging, y, settles, overtaken>>
    /\ UNCHANGED NotCarousel

CarNext ==
    \/ handleDragStart
    \/ handleDragEnd
    \/ SettleComplete
    \/ AutoplayTick
    \/ handleIndicatorClick
    \/ handleMouseEnter
    \/ handleMouseLeave

\* ---- Properties of Carousel ----

\* C2: on a non-empty feed, after any sequence of drag releases with their
\* settle completions, autoplay ticks and indicator taps,
\* 0 <= currentIndex < items.length.
IndexInRange ==
    itemsLength > 0 => (0 <= currentIndex /\ currentIndex < itemsLength)

\* C2 witness: the index sits on the last item of a feed of several items
\* with no wrap-around, where a further advance must be clamped.
IndexAtLastItem ==
    /\ itemsLength > 1
    /\ ~loop
    /\ currentIndex = itemsLength - 1

\* C3: every step that changes currentIndex is taken while the dragging flag
\* is false.  The autoplay interval is installed whatever the flag is, and
\* the then-callback of an earlier release can run after the next drag has
\* begun, so the code takes such steps during a drag.
NoCommitWhileDragging ==
    [][currentIndex' # currentIndex => ~isDragging]_vars

\* C22: the autoplay timer never advances currentIndex while the user is
\* hovering or a drag is in progress, and never when the item count is <= 1.
\* The interval of the code is installed whatever isDragging.current is.
AutoplayRespectsPause ==
    [][AutoplayTick => (~isHovered /\ ~isDragging /\ itemsLength > 1)]_vars

\* C30: after a drag-end the dragging flag stays set until the settle
\* animation has completed: it is cleared by the step that completes a
\* settle and commits the index, not before.  handleDragEnd clears it in its
\* first statement.
FlagClearedWithCommit ==
    [][(isDragging /\ ~isDragging') => Len(settles') < Len(settles)]_vars

\* C37: the index set by an indicator tap or an autoplay tick is not
\* overwritten by the settle completion of a drag released before it: a
\* settle completion, all the pending releases having been overtaken by a
\* tap or a tick, leaves currentIndex as it is.  The then-callback of
\* handleDragEnd sets the newIndex computed at the release.
TapOutlivesEarlierRelease ==
    [][(/\ Len(settles') < Len(settles)
        /\ \A k \in 1..Len(overtaken) : overtaken[k])
          => currentIndex' = currentIndex]_vars

\* C38: whenever no drag is in progress and no settle is pending, the track
\* is at, or on its way to, the resting offset of the current index,
\* -(effectiveIndex * trackItemOffset).
TrackRestsAtIndex ==
    (~isDragging /\ settles = << >>) =>
        y = 0 - (effectiveIndex(currentIndex, itemsLength) * trackItemOffset)

\* C38 witness: at rest on the last of three items, away from the initial
\* offset.
RestingOnLastItem ==
    /\ itemsLength = 3
    /\ currentIndex = 2
    /\ ~isDragging
    /\ settles = << >>
    /\ y = 0 - 2 * trackItemOffset

---------------------------------------------------------------------------
(***************************************************************************)
(* VideoPreloader and OptimizedCarousel                                    *)
(* (src/src/components/OptimizedCarousel.jsx).                             *)
(*                                                                         *)
(* Item i of the carousel has URL i.  A load operation is one call of      *)
(* preload that created a <video> element: its promise, its 5 s timer and  *)
(* the element with its two once-listeners.  Date.now() is taken to grow   *)
(* strictly from one load completion to the next, so the cache is kept as  *)
(* the sequence of its entries in ascending timestamp order.               *)
(***************************************************************************)
\* Bounds of the model.
MaxOcItems == 3
MaxCapacity == 2
MaxOps == 3
MaxOcSettles == 1
MaxCommits == 3

\* Program constants of OptimizedCarousel.
OC_DRAG_BUFFER == 100
OC_VELOCITY_THRESHOLD == 200
OC_RENDER_WINDOW == 2
OC_PRELOAD_AHEAD == 3

Urls == 0..(MaxOcItems - 1)
OpIds == 1..MaxOps

\* No operation under this number.
NoOp == [url |-> 0 - 1, resolved |-> TRUE, timer |-> FALSE, elem |-> "none"]

OcOffsets == {-(OC_DRAG_BUFFER + 1), 0, OC_DRAG_BUFFER + 1}
OcVelocities == {-(OC_VELOCITY_THRESHOLD + 1), 0, OC_VELOCITY_THRESHOLD + 1}

\* getNextIndex of OptimizedCarousel stepping one item per DRAG_BUFFER of
\* offset, a multi-item fling (mutation).
ocGetNextIndexFling(cur, offset, velocity, length) ==
    IF length = 0 THEN cur
    ELSE IF offset < -OC_DRAG_BUFFER \/ velocity < -OC_VELOCITY_THRESHOLD
         THEN Min(cur + Max((0 - offset) \div OC_DRAG_BUFFER, 1), length - 1)
    ELSE IF offset > OC_DRAG_BUFFER \/ velocity > OC_VELOCITY_THRESHOLD
         THEN Max(cur - Max(offset \div OC_DRAG_BUFFER, 1), 0)
    ELSE cur

\* getNextIndex(currentIndex, offset, velocity, length) of OptimizedCarousel
ocGetNextIndex(cur, offset, velocity, length) ==
    IF length = 0 THEN cur
    ELSE IF offset < -OC_DRAG_BUFFER \/ velocity < -OC_VELOCITY_THRESHOLD
         THEN Min(cur + 1, length - 1)
    ELSE IF offset > OC_DRAG_BUFFER \/ velocity > OC_VELOCITY_THRESHOLD
         THEN Max(cur - 1, 0)
    ELSE cur

\* visibleIndices of OptimizedCarousel
ocVisibleIndices(cur, length) ==
    {cur + i : i \in (0 - OC_RENDER_WINDOW)..OC_RENDER_WINDOW} \cap 0..(length - 1)

\* ---- VideoPreloader ----
\* The preloader as a value P = [cache, lp, ops, touch, over], threaded
\* through the calls one event makes; over records that an operation was
\* needed beyond the bound MaxOps.
SeqRange(s) == {s[k] : k \in 1..Len(s)}

SeqWithout(s, u) == SelectSeq(s, LAMBDA e : e # u)

\* An operation can still act while its promise is pending, its timer is
\* pending or its element can still fire an event.
Live(op) == op.elem # "none" /\ (~op.resolved \/ op.timer \/ op.elem = "loading")

Forget(P) ==
    [P EXCEPT !.ops = [o \in OpIds |-> IF Live(P.ops[o]) THEN P.ops[o] ELSE NoOp]]

\* cleanup() with the capacity test off by one (mutation).
cleanupOffByOne(P, capacity) ==
    IF Len(P.cache) > capacity + 1
    THEN [P EXCEPT !.cache = Tail(P.cache),
                   !.touch = SeqWithout(P.touch, Head(P.cache))]
    ELSE P

\* cleanup(): while over capacity, drop the entry with the oldest timestamp
\* and release its element.
RECURSIVE cleanup(_, _)
cleanup(P, capacity) ==
    IF Len(P.cache) > capacity
    THEN cleanup([P EXCEPT !.cache = Tail(P.cache),
                           !.touch = SeqWithout(P.touch, Head(P.cache))],
                 capacity)
    ELSE P

\* preload(url): the early return for a cached or loading key, else a new
\* element, promise and timer.
preload(P, url) ==
    IF url \in SeqRange(P.cache) \/ P.lp[url] # 0
    THEN IF url \in SeqRange(P.cache)
         THEN [P EXCEPT !.touch = Append(SeqWithout(P.touch, url), url)]
         ELSE P
    ELSE LET free == {o \in OpIds : P.ops[o].elem = "none"}
         IN IF free = {} THEN [P EXCEPT !.over = TRUE]
            ELSE LET o == CHOOSE f \in free : \A g \in free : f <= g
                 IN [P EXCEPT !.ops[o] = [url |-> url, resolved |-> FALSE,
                                          timer |-> TRUE, elem |-> "loading"],
                              !.lp[url] = o]

\* The promise preload(url) returned: the operation in loadingPromises, or 0
\* for Promise.resolve().
PromiseOf(P, url) == P.lp[url]

\* handleCanPlay of operation o
handleCanPlay(P, o, capacity) ==
    LET url == P.ops[o].url
        P1 == [P EXCEPT !.cache = Append(SeqWithout(P.cache, url), url),
                        !.touch = Append(SeqWithout(P.touch, url), url),
                        !.lp[url] = 0,
                        !.ops[o].elem = "done"]
        P2 == cleanup(P1, capacity)
    IN [P2 EXCEPT !.ops[o].resolved = TRUE]

\* handleError of operation o
handleError(P, o) ==
    [P EXCEPT !.lp[P.ops[o].url] = 0,
              !.ops[o].elem = "done",
              !.ops[o].resolved = TRUE]

\* The setTimeout fallback of operation o
handleTimeout(P, o) ==
    IF P.lp[P.ops[o].url] # 0
    THEN [P EXCEPT !.lp[P.ops[o].url] = 0,
                   !.ops[o].timer = FALSE,
                   !.ops[o].resolved = TRUE]
    ELSE [P EXCEPT !.ops[o].timer = FALSE]

\* clear()
clear(P) ==
    [P EXCEPT !.cache = << >>,
              !.lp = [u \in Urls |-> 0],
              !.touch = << >>]

\* isLoaded(url)
isLoaded(url) == url \in SeqRange(cache)

\* ---- preloadVideos() of OptimizedCarousel ----
\* indicesToPreload without the item behind (mutation).
indicesToPreloadAheadOnly(cur, length) ==
    SelectSeq([i \in 1..OC_PRELOAD_AHEAD |-> cur + i], LAMBDA n : n < length)

\* indicesToPreload for a captured currentIndex: ahead first, then one behind.
indicesToPreload(cur, length) ==
    LET ahead == SelectSeq([i \in 1..OC_PRELOAD_AHEAD |-> cur + i],
                           LAMBDA n : n < length)
    IN IF cur - 1 >= 0 THEN Append(ahead, cur - 1) ELSE ahead

RECURSIVE preloadAll(_, _)
preloadAll(P, idxs) ==
    IF idxs = << >> THEN P ELSE preloadAll(preload(P, Head(idxs)), Tail(idxs))

Pending(P, waits) == {o \in waits : ~P.ops[o].resolved}

\* One continuation of a suspended preloadVideos(): after the await of the
\* current item it preloads the others and awaits them all; after that it
\* records the indices in loadedVideos and ends.
\* S = [P, tasks, loaded, length, mounted, req].
AdvanceTask(S, t) ==
    LET others == indicesToPreload(t.cur, S.length)
    IN IF t.stage = 1
       THEN LET P1 == preloadAll(S.P, others)
            IN [S EXCEPT !.P = P1,
                         !.req = @ \/ (~S.mounted /\ others # << >>),
                         !.tasks = (@ \ {t}) \cup
                                   {[cur |-> t.cur, stage |-> 2,
                                     waits |-> Pending(P1, {PromiseOf(P1, u) : u \in SeqRange(others)} \ {0})]}]
       ELSE [S EXCEPT !.tasks = @ \ {t},
                      !.loaded = IF S.mounted
                                 THEN S.loaded \cup SeqRange(others) \cup {t.cur}
                                 ELSE S.loaded]

\* Operation numbers are names only: at the end of an event the operations
\* are renumbered in a fixed order of their contents.
OpKey(P, o) ==
    LET op == P.ops[o]
    IN IF op.elem = "none" THEN 1000
       ELSE (((op.url * 2 + (IF op.resolved THEN 1 ELSE 0)) * 2
              + (IF op.timer THEN 1 ELSE 0)) * 2
              + (IF op.elem = "loading" THEN 1 ELSE 0)) * 2
            + (IF P.lp[op.url] = o THEN 1 ELSE 0)

RankOf(key) ==
    [o \in OpIds |-> Cardinality({q \in OpIds : \/ key[q] < key[o]
                                                \/ (key[q] = key[o] /\ q <= o)})]

RenumberBy(S, rank) ==
    IF \A o \in OpIds : rank[o] = o THEN S
    ELSE [S EXCEPT
            !.P.ops = [n \in OpIds |-> S.P.ops[CHOOSE o \in OpIds : rank[o] = n]],
            !.P.lp = [u \in Urls |-> IF S.P.lp[u] = 0 THEN 0 ELSE rank[S.P.lp[u]]],
            !.tasks = {[t EXCEPT !.waits = {rank[o] : o \in @}] : t \in S.tasks}]

Renumber(S) ==
    CHOOSE T \in {RenumberBy(S1, rank) :
                    S1 \in {S},
                    rank \in {RankOf(key) : key \in {[o \in OpIds |-> OpKey(S.P, o)]}}} : TRUE

\* Run every continuation whose awaited promises are resolved, until none is
\* left.  Invocations suspended at the same place on the same promises
\* repeat each other's calls and are kept once; the continuations that one
\* event makes runnable request the same urls in whichever order they run,
\* and run here by stage and index.
RECURSIVE RunTasks(_)
RunTasks(S) ==
    LET waiting == {[t EXCEPT !.waits = Pending(S.P, @)] : t \in S.tasks}
        ready == {t \in waiting : t.waits = {}}
    IN IF ready = {}
       THEN Renumber([S EXCEPT !.tasks = waiting, !.P = Forget(S.P)])
       ELSE RunTasks(AdvanceTask([S EXCEPT !.tasks = waiting],
                                 CHOOSE t \in ready : \A u \in ready :
                                    t.stage * MaxOcItems + t.cur
                                      <= u.stage * MaxOcItems + u.cur))

\* The preload effect of a render with a new currentIndex: preloadVideos()
\* runs up to its first await.
StartTask(S, cur) ==
    LET P1 == preload(S.P, cur)
    IN RunTasks([S EXCEPT !.P = P1,
                          !.tasks = @ \cup {[cur |-> cur, stage |-> 1,
                                             waits |-> {PromiseOf(P1, cur)} \ {0}]}])

CurState == [P |-> [cache |-> cache, lp |-> loadingPromises, ops |-> ops,
                    touch |-> touchOrder, over |-> FALSE],
             tasks |-> tasks, loaded |-> loadedVideos,
             length |-> ocItemsLength, mounted |-> ocMounted,
             req |-> preloadedSinceClear]

\* Commit a state computed by an event, within the bound on operations.
Commit(S) ==
    \E T \in {S} :
       /\ ~T.P.over
       /\ cache' = T.P.cache
       /\ loadingPromises' = T.P.lp
       /\ ops' = T.P.ops
       /\ touchOrder' = T.P.touch
       /\ preloadedSinceClear' = T.req
       /\ tasks' = T.tasks
       /\ loadedVideos' = T.loaded

EmptyPreloader == [cache |-> << >>, lp |-> [u \in Urls |-> 0],
                   ops |-> [o \in OpIds |-> NoOp], touch |-> << >>,
                   over |-> FALSE]

\* new VideoPreloader(capacity), and the first render and effects of
\* OptimizedCarousel.
PreInit ==
    /\ maxCacheSize \in 1..MaxCapacity
    /\ ocItemsLength \in 1..MaxOcItems
    /\ ocCurrentIndex = 0
    /\ ocIsDragging = FALSE
    /\ ocSettles = << >>
    /\ ocMounted = TRUE
    /\ ocCommits = 0
    /\ LET S == StartTask([P |-> EmptyPreloader, tasks |-> {}, loaded |-> {0},
                           length |-> ocItemsLength, mounted |-> TRUE,
                           req |-> FALSE], 0)
       IN /\ cache = S.P.cache
          /\ loadingPromises = S.P.lp
          /\ ops = S.P.ops
          /\ touchOrder = S.P.touch
          /\ preloadedSinceClear = S.req
          /\ tasks = S.tasks
          /\ loadedVideos = S.loaded

\* 'canplaythrough' of the element of operation o (a once-listener)
CanPlayThrough ==
    /\ \E o \in OpIds :
         /\ ops[o].elem = "loading"
         /\ Commit(RunTasks([CurState EXCEPT
                               !.P = handleCanPlay(CurState.P, o, maxCacheSize)]))
    /\ UNCHANGED <<maxCacheSize, ocItemsLength, ocCurrentIndex, ocIsDragging,
                   ocSettles, ocMounted, ocCommits>>
    /\ UNCHANGED NotPreloader

\* 'error' of the element of operation o (a once-listener)
ErrorEvent ==
    /\ \E o \in OpIds :
         /\ ops[o].elem = "loading"
         /\ Commit(RunTasks([CurState EXCEPT !.P = handleError(CurState.P, o)]))
    /\ UNCHANGED <<maxCacheSize, ocItemsLength, ocCurrentIndex, ocIsDragging,
                   ocSettles, ocMounted, ocCommits>>
    /\ UNCHANGED NotPreloader

\* The 5000 ms timer of operation o fires
TimeoutFires ==
    /\ \E o \in OpIds :
         /\ ops[o].timer
         /\ Commit(RunTasks([CurState EXCEPT !.P = handleTimeout(CurState.P, o)]))
    /\ UNCHANGED <<maxCacheSize, ocItemsLength, ocCurrentIndex, ocIsDragging,
                   ocSettles, ocMounted, ocCommits>>
    /\ UNCHANGED NotPreloader

\* handleDragStart of OptimizedCarousel
ocHandleDragStart ==
    /\ ocMounted
    /\ ~ocIsDragging
    /\ ocIsDragging' = TRUE
    /\ UNCHANGED <<maxCacheSize, cache, loadingPromises, ops, ocItemsLength,
                   ocCurrentIndex, ocSettles, loadedVideos, tasks, ocMounted,
                   ocCommits, touchOrder, preloadedSinceClear>>
    /\ UNCHANGED NotPreloader

\* handleDragEnd of OptimizedCarousel; the then-callback of a release with
\* newIndex === currentIndex does nothing and is not kept.
ocHandleDragEnd ==
    /\ ocMounted
    /\ ocIsDragging
    /\ \E offset \in OcOffsets, velocity \in OcVelocities :
         LET newIndex == ocGetNextIndex(ocCurrentIndex, offset, velocity,
                                        ocItemsLength)
         IN IF newIndex # ocCurrentIndex
            THEN /\ Len(ocSettles) < MaxOcSettles
                 /\ ocCommits + Len(ocSettles) < MaxCommits
                 /\ ocSettles' = Append(ocSettles, newIndex)
            ELSE ocSettles' = ocSettles
    /\ ocIsDragging' = FALSE
    /\ UNCHANGED <<maxCacheSize, cache, loadingPromises, ops, ocItemsLength,
                   ocCurrentIndex, loadedVideos, tasks, ocMounted, ocCommits,
                   touchOrder, preloadedSinceClear>>
    /\ UNCHANGED NotPreloader

\* animate(...).then: setCurrentIndex(newIndex); a render with a new
\* currentIndex runs the preload effect.
ocSettleComplete ==
    /\ \E k \in 1..Len(ocSettles) :
         LET newIndex == ocSettles[k]
         IN /\ ocSettles' = RemoveAt(ocSettles, k)
            /\ IF ocMounted /\ newIndex # ocCurrentIndex
               THEN /\ ocCurrentIndex' = newIndex
                    /\ ocCommits' = ocCommits + 1
                    /\ Commit(StartTask(CurState, newIndex))
               ELSE UNCHANGED <<ocCommits, ocCurrentIndex, cache, loadingPromises, ops,
                                touchOrder, tasks, loadedVideos,
                                preloadedSinceClear>>
    /\ UNCHANGED <<maxCacheSize, ocItemsLength, ocIsDragging, ocMounted>>
    /\ UNCHANGED NotPreloader

\* Unmount of OptimizedCarousel: the cleanup effect calls preloader.clear().
ocUnmount ==
    /\ ocMounted
    /\ ocMounted' = FALSE
    /\ ocIsDragging' = FALSE
    /\ Commit(RunTasks([CurState EXCEPT !.P = clear(CurState.P)]))
    /\ UNCHANGED <<maxCacheSize, ocItemsLength, ocCurrentIndex, ocSettles,
                   ocCommits>>
    /\ UNCHANGED NotPreloader

PreNext ==
    \/ CanPlayThrough
    \/ ErrorEvent
    \/ TimeoutFires
    \/ ocHandleDragStart
    \/ ocHandleDragEnd
    \/ ocSettleComplete
    \/ ocUnmount

\* ---- Properties of VideoPreloader ----

\* The operations that exist, and those whose promise is still pending.
Existing == {o \in OpIds : ops[o].elem # "none"}

PendingOps == {o \in Existing : ~ops[o].resolved}

\* The entries dropped from the cache by a step that leaves the cache
\* non-empty, that is by cleanup() and not by clear().
Evicted == IF cache' = << >> THEN {} ELSE SeqRange(cache) \ SeqRange(cache')

\* C4: the number of entries in the cache never exceeds its capacity, for
\* any number and order of preload calls and load completions.
CacheWithinCapacity == Len(cache) <= maxCacheSize

\* C4 witness: on a feed with more items than the capacity every load has
\* ended, the cache is full, and the first item, whose preload has resolved,
\* is not in it.
CacheFullAfterLoads ==
    /\ ocItemsLength > maxCacheSize
    /\ Len(cache) = maxCacheSize
    /\ 0 \in loadedVideos
    /\ 0 \notin SeqRange(cache)
    /\ Existing = {}

\* C5: at any time at most one load operation per key has its promise
\* pending, so a preload of a key in flight never creates a second element.
\* A late event of an operation that timed out deletes the loadingPromises
\* entry of its successor, and the next preload of the key starts another
\* operation beside it.
OneOperationPerKey ==
    ocMounted =>
        \A a \in PendingOps, b \in PendingOps : ops[a].url = ops[b].url => a = b

\* C6: a promise returned by preload is resolved at the latest when its
\* timeout has fired.  The timeout resolves only if loadingPromises still
\* has the key, which clear() or a stale handler may have removed.
ResolvedByTimeout ==
    \A o \in Existing : ~ops[o].timer => ops[o].resolved

\* C7: eviction never removes the entry of the active index while another
\* entry that was in the cache stays in it.  cleanup() takes the oldest
\* timestamp whatever the active index is.
ActiveEntryKept ==
    [][(ocCurrentIndex \in Evicted)
         => ~(\E v \in SeqRange(cache) : v # ocCurrentIndex /\ v \in SeqRange(cache'))]_vars

\* C8: the entry evicted on overflow is the least recently touched one, where
\* a load completion and a preload of a cached key (among them the preload
\* of the item that became active) are touches.  The timestamp is written by
\* load completion only, so eviction goes by insertion.
EvictsLeastRecentlyTouched ==
    [][\A u \in Evicted : u = Head(touchOrder)]_vars

\* C23: after the clear() of unmount, and as long as no preload has been
\* called since, the cache holds no entry.  clear() releases the cached
\* elements only: an element still loading keeps its listeners, and its
\* canplaythrough puts it into the cache afterwards.
CacheEmptyAfterClear ==
    (~ocMounted /\ ~preloadedSinceClear) => cache = << >>

\* C24: isLoaded(key) is true exactly when a preload of the key has resolved
\* by canplaythrough and the entry was not evicted or cleared since; it is
\* false for a key whose preload ended by error or by timeout.  So a key
\* that is not loaded and whose preloads have all resolved is not loaded
\* after the next step either, and a key enters the cache only by a step
\* that resolves a pending preload of it.  The element of a preload that
\* ended by timeout keeps its canplaythrough listener.
LoadedOnlyByResolvingPreload ==
    [][\A u \in Urls :
         (~isLoaded(u) /\ \A o \in Existing : ops[o].url = u => ops[o].resolved)
            => u \notin SeqRange(cache')]_vars

---------------------------------------------------------------------------
(***************************************************************************)
(* OptimizedCarousel and its VideoItems                                    *)
(* (src/src/components/OptimizedCarousel.jsx): what each item renders.     *)
(*                                                                         *)
(* The promises of the preloader are left to the environment here: an      *)
(* invocation of preloadVideos() that was started ends, with its           *)
(* setLoadedVideos, at any later time.                                     *)
(***************************************************************************)
\* Bounds of the model.
MaxViItems == 4
MaxViSettles == 1
MaxViCommits == 3

\* The isVisible prop of VideoItem index
isVisibleProp(index) ==
    \/ index \in ocVisibleIndices(viCurrentIndex, viItemsLength)
    \/ index \in viLoadedVideos

\* The items whose VideoItem renders a MediaPlayer: neither the skeleton of
\* an item that is not visible nor the failure indicator.
MediaPlayers ==
    {index \in 0..(viItemsLength - 1) : isVisibleProp(index) /\ index \notin hasError}

\* The first render and effects of OptimizedCarousel: preloadVideos() starts.
VidInit ==
    /\ viItemsLength \in 1..MaxViItems
    /\ viCurrentIndex = 0
    /\ viIsDragging = FALSE
    /\ viSettles = << >>
    /\ viCommits = 0
    /\ viLoadedVideos = {0}
    /\ preloading = {0}
    /\ isReady = {}
    /\ hasError = {}

\* handleDragStart of OptimizedCarousel
viHandleDragStart ==
    /\ ~viIsDragging
    /\ viIsDragging' = TRUE
    /\ UNCHANGED <<viItemsLength, viCurrentIndex, viSettles, viCommits,
                   viLoadedVideos, preloading, isReady, hasError>>
    /\ UNCHANGED NotVideoItems

\* handleDragEnd of OptimizedCarousel; the then-callback of a release with
\* newIndex === currentIndex does nothing and is not kept.
viHandleDragEnd ==
    /\ viIsDragging
    /\ \E offset \in OcOffsets, velocity \in OcVelocities :
         LET newIndex == ocGetNextIndex(viCurrentIndex, offset, velocity,
                                        viItemsLength)
         IN IF newIndex # viCurrentIndex
            THEN /\ Len(viSettles) < MaxViSettles
                 /\ viCommits + Len(viSettles) < MaxViCommits
                 /\ viSettles' = Append(viSettles, newIndex)
            ELSE viSettles' = viSettles
    /\ viIsDragging' = FALSE
    /\ UNCHANGED <<viItemsLength, viCurrentIndex, viCommits, viLoadedVideos,
                   preloading, isReady, hasError>>
    /\ UNCHANGED NotVideoItems

\* animate(...).then: setCurrentIndex(newIndex); the render with the new
\* currentIndex runs the preload effect, which starts preloadVideos().
viSettleComplete ==
    /\ \E k \in 1..Len(viSettles) :
         LET newIndex == viSettles[k]
         IN /\ viSettles' = RemoveAt(viSettles, k)
            /\ IF newIndex # viCurrentIndex
               THEN /\ viCurrentIndex' = newIndex
                    /\ viCommits' = viCommits + 1
                    /\ preloading' = preloading \cup {newIndex}
               ELSE UNCHANGED <<viCurrentIndex, viCommits, preloading>>
    /\ UNCHANGED <<viItemsLength, viIsDragging, viLoadedVideos, isReady, hasError>>
    /\ UNCHANGED NotVideoItems

\* The end of the preloadVideos() started with currentIndex cur, after its
\* awaits: setLoadedVideos adds indicesToPreload and the index.
preloadVideosEnd ==
    /\ \E cur \in preloading :
         /\ preloading' = preloading \ {cur}
         /\ viLoadedVideos' = viLoadedVideos
                \cup SeqRange(indicesToPreload(cur, viItemsLength)) \cup {cur}
    /\ UNCHANGED <<viItemsLength, viCurrentIndex, viIsDragging, viSettles,
                   viCommits, isReady, hasError>>
    /\ UNCHANGED NotVideoItems

\* handleCanPlay of VideoItem index, from its MediaPlayer
viHandleCanPlay ==
    /\ \E index \in MediaPlayers : isReady' = isReady \cup {index}
    /\ UNCHANGED <<viItemsLength, viCurrentIndex, viIsDragging, viSettles,
                   viCommits, viLoadedVideos, preloading, hasError>>
    /\ UNCHANGED NotVideoItems

\* handleError of VideoItem index, from its MediaPlayer
viHandleError ==
    /\ \E index \in MediaPlayers : hasError' = hasError \cup {index}
    /\ UNCHANGED <<viItemsLength, viCurrentIndex, viIsDragging, viSettles,
                   viCommits, viLoadedVideos, preloading, isReady>>
    /\ UNCHANGED NotVideoItems

VidNext ==
    \/ viHandleDragStart
    \/ viHandleDragEnd
    \/ viSettleComplete
    \/ preloadVideosEnd
    \/ viHandleCanPlay
    \/ viHandleError

\* ---- Properties of OptimizedCarousel's rendering ----

\* C15: after any sequence of index changes and preload completions, an item
\* has a MediaPlayer only if its index is within currentIndex +- RENDER_WINDOW,
\* so that at most 2 * RENDER_WINDOW + 1 = 5 players exist.  The isVisible
\* prop is visibleIndices.has(index) || loadedVideos.has(index), and
\* loadedVideos only grows and reaches PRELOAD_AHEAD = 3 items ahead.
PlayersWithinWindow ==
    /\ MediaPlayers \subseteq ocVisibleIndices(viCurrentIndex, viItemsLength)
    /\ Cardinality(MediaPlayers) <= 2 * OC_RENDER_WINDOW + 1

(***************************************************************************)
(* YouTubeAPIManager, YouTubePlayer and YouTubeShortsCarousel              *)
(* (src/src/components/YouTubeShortsCarousel.jsx).                         *)
(*                                                                         *)
(* Item i has container id i.  A player is one object made by              *)
(* new window.YT.Player, with an iframe of its own inside the item's       *)
(* player container: the provider may notify it (onReady, onError,         *)
(* onStateChange) and it can play until its destroy() is called or the     *)
(* container leaves the document.  A YouTubePlayer component stays mounted *)
(* while the carousel is; out of the window it renders the skeleton and    *)
(* its containerRef is null.                                               *)
(***************************************************************************)
\* Bounds of the model.
MaxYtItems == 3
MaxHandles == 5
MaxCallbacks == 5
MaxYtSettles == 1
MaxYtCommits == 3
MaxFaults == 1

\* Program constants of YouTubeShortsCarousel.
YT_DRAG_BUFFER == 80
YT_VELOCITY_THRESHOLD == 200
YT_RENDER_WINDOW == 1
YT_PRELOAD_AHEAD == 2

YtItems == 0..(MaxYtItems - 1)
HandleIds == 1..MaxHandles

\* The value of the player state of an item whose player was destroyed.
Destroyed == 0 - 1

\* No player under this number.  pos is where the media of a player stands:
\* 0 at its beginning, where the player was created, 1 further on, 2 at the
\* beginning again after seekTo(0).
NoHandle == [item |-> 0 - 1, act |-> FALSE, mut |-> FALSE, ready |-> FALSE,
             playing |-> FALSE, muted |-> FALSE, pos |-> 0]

YtOffsets == {-(YT_DRAG_BUFFER + 1), 0, YT_DRAG_BUFFER + 1}
YtVelocities == {-(YT_VELOCITY_THRESHOLD + 1), 0, YT_VELOCITY_THRESHOLD + 1}

\* getNextIndex(currentIndex, offset, velocity, length) of YouTubeShortsCarousel
ytGetNextIndex(cur, offset, velocity, length) ==
    IF length = 0 THEN cur
    ELSE IF offset < -YT_DRAG_BUFFER \/ velocity < -YT_VELOCITY_THRESHOLD
         THEN Min(cur + 1, length - 1)
    ELSE IF offset > YT_DRAG_BUFFER \/ velocity > YT_VELOCITY_THRESHOLD
         THEN Max(cur - 1, 0)
    ELSE cur

\* visibleIndices of YouTubeShortsCarousel
ytVisibleIndices(cur, length) ==
    {cur + i : i \in (0 - YT_RENDER_WINDOW)..(YT_RENDER_WINDOW + YT_PRELOAD_AHEAD)}
        \cap 0..(length - 1)

\* ---- YouTubeAPIManager ----
\* The program state as a value S = [cur, muted, mounted, length, loaded, cbs,
\* map, ps, ply, cln, h, unc, throws, threw, over], threaded through the
\* calls one event makes; throws says that the calls into the provider made
\* during the event throw, threw that one did, and a call of playVideo,
\* pauseVideo, mute, unMute or seekTo that throws has no effect on the
\* player; over records that a bound of the model was exceeded.

\* Whether the provider calls of the next event may throw.
Throwing == IF faults < MaxFaults THEN BOOLEAN ELSE {FALSE}

\* destroyPlayer(containerId): destroy the player registered under the id;
\* an exception of destroy() is caught and the entry deleted all the same.
\* (destroy() throws on a player that cannot act any more: whether it
\* throws or not, the player is gone after the call.)
destroyPlayer(S, i) ==
    IF S.map[i] = 0 THEN S
    ELSE [S EXCEPT !.h[S.map[i]] = NoHandle,
                   !.ply = [j \in YtItems |-> IF @[j] = S.map[i] THEN Destroyed ELSE @[j]],
                   !.map[i] = 0,
                   !.threw = @ \/ S.throws]

\* destroyAll()
RECURSIVE destroyAll(_, _)
destroyAll(S, i) ==
    IF i >= MaxYtItems THEN S ELSE destroyAll(destroyPlayer(S, i), i + 1)

\* createPlayer(containerId, videoId, options): a new player, muted and not
\* playing, with the callbacks of the effect run that asked for it; it
\* takes the place of the id's entry in players.  new window.YT.Player is
\* called outside any try: its exception leaves createPlayer and rejects
\* the promise of the async function of the creation effect, which nothing
\* handles.
createPlayer(S, i, act, mut) ==
    LET free == {o \in HandleIds : S.h[o].item < 0}
    IN IF S.throws THEN [S EXCEPT !.unc = TRUE, !.threw = TRUE]
       ELSE IF free = {} THEN [S EXCEPT !.over = TRUE]
       ELSE LET o == CHOOSE f \in free : \A g \in free : f <= g
            IN [S EXCEPT !.h[o] = [item |-> i, act |-> act, mut |-> mut,
                                   ready |-> FALSE, playing |-> FALSE,
                                   muted |-> TRUE, pos |-> 0],
                         !.map[i] = o]

\* ---- YouTubePlayer ----
\* The props and state one render of item i sees.
ViewOf(S, i) ==
    [ps |-> S.ps[i],
     act |-> (i = S.cur),
     vis |-> (i \in ytVisibleIndices(S.cur, S.length)),
     mut |-> S.muted,
     ply |-> S.ply[i]]

\* The player container of an item is rendered while the item is in the
\* window and loading or ready.
HasContainer(v) == v.vis /\ v.ps \in {"loading", "ready"}

\* The container of item i leaves the document, and with it the iframes of
\* the item's players: they cannot act any more.
Detach(S, i) ==
    [S EXCEPT !.h = [o \in HandleIds |-> IF @[o].item = i THEN NoHandle ELSE @[o]],
              !.ply[i] = IF @ > 0 THEN Destroyed ELSE @,
              !.map[i] = 0]

\* The DOM update of a render: containers rendered before and not now are
\* removed.  (The state handed over is bound once, as the value S.)
RECURSIVE CommitDom(_, _, _, _)
CommitDom(S0, i, old, new) ==
    CHOOSE R \in
        {IF i >= S.length THEN S
         ELSE CommitDom(IF HasContainer(old[i]) /\ ~HasContainer(new[i])
                        THEN Detach(S, i) ELSE S,
                        i + 1, old, new) : S \in {S0}} : TRUE

\* The rest of createPlayer() of the creation effect, after await
\* ytManager.load(): nothing without the container.
ContinueCreate(S, c) ==
    IF ~(S.mounted /\ c.item \in ytVisibleIndices(S.cur, S.length)) THEN S
    ELSE createPlayer(S, c.item, c.act, c.mut)

\* The creation effect body: with the API loaded the awaited promise is
\* resolved and the continuation runs at the end of the event.
CreationEffect(S, i, n) ==
    IF n.ps # "loading" \/ ~n.vis THEN [S EXCEPT !.cln[i] = FALSE]
    ELSE LET c == [item |-> i, act |-> n.act, mut |-> n.mut]
             S1 == [S EXCEPT !.cln[i] = TRUE]
         IN IF S.loaded THEN ContinueCreate(S1, c)
            ELSE IF Len(S.cbs) >= MaxCallbacks THEN [S1 EXCEPT !.over = TRUE]
            ELSE [S1 EXCEPT !.cbs = Append(@, c)]

\* The playback control effect without its else branch: an item that is
\* not active is left as it is (mutation).
ControlEffectNoPause(S, i, n) ==
    IF n.ply = 0 \/ n.ps # "ready" \/ S.ply[i] <= 0 THEN S
    ELSE IF S.throws THEN [S EXCEPT !.threw = TRUE]
    ELSE IF n.act
         THEN [S EXCEPT !.h[S.ply[i]].playing = TRUE,
                        !.h[S.ply[i]].muted = n.mut]
         ELSE S

\* The playback control effect and the mute effect, which have the same
\* dependencies; calls on a destroyed player do nothing, and both effects
\* catch what their calls throw.
ControlEffect(S, i, n) ==
    IF n.ply = 0 \/ n.ps # "ready" \/ S.ply[i] <= 0 THEN S
    ELSE IF S.throws THEN [S EXCEPT !.threw = TRUE]
    ELSE IF n.act
         THEN [S EXCEPT !.h[S.ply[i]].playing = TRUE,
                        !.h[S.ply[i]].muted = n.mut]
         ELSE [S EXCEPT !.h[S.ply[i]].playing = FALSE,
                        !.h[S.ply[i]].muted = TRUE]

\* The effects of item i after a render that saw n where the previous
\* render saw o: cleanup of the creation effect, then the effects whose
\* dependencies changed, in their order in the component.
ItemEffects(S, i, o, n) ==
    LET creation == o.ps # n.ps \/ o.act # n.act \/ o.vis # n.vis \/ o.mut # n.mut
        control == o.act # n.act \/ o.ply # n.ply \/ o.ps # n.ps \/ o.mut # n.mut
        autoload == o.act # n.act \/ o.ps # n.ps
        S1 == IF creation /\ S.cln[i] THEN destroyPlayer(S, i) ELSE S
        S2 == IF autoload /\ n.act /\ n.ps = "facade"
              THEN [S1 EXCEPT !.ps[i] = "loading"] ELSE S1
        S3 == IF creation THEN CreationEffect(S2, i, n) ELSE S2
    IN IF control THEN ControlEffect(S3, i, n) ELSE S3

\* The effects of all the items, in the order of the items.
RECURSIVE AllEffects(_, _, _, _)
AllEffects(S0, i, old, new) ==
    CHOOSE R \in
        {IF i >= S.length THEN S
         ELSE AllEffects(ItemEffects(S, i, old[i], new[i]), i + 1, old, new)
            : S \in {S0}} : TRUE

\* Render and run effects until no state changes: old is what the previous
\* render of each item saw.
RECURSIVE Render(_, _)
Render(S0, old0) ==
    CHOOSE R \in
        {IF ~S.mounted \/ new = old THEN S
         ELSE Render(AllEffects(CommitDom(S, 0, old, new), 0, old, new), new)
            : <<S, old, new>> \in
                {<<S0, old0, [i \in YtItems |-> ViewOf(S0, i)]>>}} : TRUE

\* ---- YouTubeShortsCarousel ----
CurYt == [cur |-> ytCurrentIndex, muted |-> ytIsMuted, mounted |-> ytMounted,
          length |-> ytLength, loaded |-> ytIsLoaded, cbs |-> callbacks,
          map |-> players, ps |-> playerState, ply |-> player,
          cln |-> hasCleanup, h |-> handles, unc |-> uncaught,
          throws |-> FALSE, threw |-> FALSE, over |-> FALSE]

CurView == [i \in YtItems |-> ViewOf(CurYt, i)]

\* Commit a state computed by an event, within the bounds.
CommitYt(S) ==
    \E T \in {S} :
       /\ ~T.over
       /\ ytCurrentIndex' = T.cur
       /\ ytIsMuted' = T.muted
       /\ ytMounted' = T.mounted
       /\ ytIsLoaded' = T.loaded
       /\ callbacks' = T.cbs
       /\ players' = T.map
       /\ playerState' = T.ps
       /\ player' = T.ply
       /\ hasCleanup' = T.cln
       /\ handles' = T.h
       /\ uncaught' = T.unc
       /\ T.throws => T.threw
       /\ faults' = IF T.threw THEN faults + 1 ELSE faults

\* What no render of a mounted item has seen: the first render runs every
\* effect.
NoView == [i \in YtItems |-> [ps |-> "unmounted", act |-> FALSE, vis |-> FALSE,
                              mut |-> FALSE, ply |-> 0]]

\* new YouTubeAPIManager(), and the first render and effects of
\* YouTubeShortsCarousel; the API may be there from an earlier mount.
YtInit ==
    /\ ytLength \in 1..MaxYtItems
    /\ ytIsLoaded \in BOOLEAN
    /\ ytCurrentIndex = 0
    /\ ytIsDragging = FALSE
    /\ ytSettles = << >>
    /\ ytCommits = 0
    /\ ytIsMuted = TRUE
    /\ ytMounted = TRUE
    /\ \E throws \in BOOLEAN :
         LET S == Render([cur |-> 0, muted |-> TRUE, mounted |-> TRUE,
                          length |-> ytLength, loaded |-> ytIsLoaded,
                          cbs |-> << >>, map |-> [i \in YtItems |-> 0],
                          ps |-> [i \in YtItems |-> "facade"],
                          ply |-> [i \in YtItems |-> 0],
                          cln |-> [i \in YtItems |-> FALSE],
                          h |-> [o \in HandleIds |-> NoHandle],
                          unc |-> FALSE, throws |-> throws, threw |-> FALSE,
                          over |-> FALSE],
                         NoView)
         IN /\ throws => S.threw
            /\ faults = IF S.threw THEN 1 ELSE 0
            /\ callbacks = S.cbs
            /\ players = S.map
            /\ playerState = S.ps
            /\ player = S.ply
            /\ hasCleanup = S.cln
            /\ handles = S.h
            /\ uncaught = S.unc

\* handleDragStart of YouTubeShortsCarousel
ytHandleDragStart ==
    /\ ytMounted
    /\ ~ytIsDragging
    /\ ytIsDragging' = TRUE
    /\ UNCHANGED <<ytLength, ytCurrentIndex, ytSettles, ytCommits, ytIsMuted,
                   ytMounted, ytIsLoaded, callbacks, players, playerState,
                   player, hasCleanup, handles, uncaught, faults>>
    /\ UNCHANGED NotYouTube

\* handleDragEnd of YouTubeShortsCarousel; the then-callback of a release
\* with newIndex === currentIndex does nothing and is not kept.
ytHandleDragEnd ==
    /\ ytMounted
    /\ ytIsDragging
    /\ \E offset \in YtOffsets, velocity \in YtVelocities :
         LET newIndex == ytGetNextIndex(ytCurrentIndex, offset, velocity, ytLength)
         IN IF newIndex # ytCurrentIndex
            THEN /\ Len(ytSettles) < MaxYtSettles
                 /\ ytCommits + Len(ytSettles) < MaxYtCommits
                 /\ ytSettles' = Append(ytSettles, newIndex)
            ELSE ytSettles' = ytSettles
    /\ ytIsDragging' = FALSE
    /\ UNCHANGED <<ytLength, ytCurrentIndex, ytCommits, ytIsMuted, ytMounted,
                   ytIsLoaded, callbacks, players, playerState, player,
                   hasCleanup, handles, uncaught, faults>>
    /\ UNCHANGED NotYouTube

\* animate(...).then: setCurrentIndex(newIndex), and the effects of the
\* items whose isActive or isVisible changed.
ytSettleComplete ==
    /\ \E k \in 1..Len(ytSettles) :
         LET newIndex == ytSettles[k]
         IN /\ ytSettles' = RemoveAt(ytSettles, k)
            /\ IF ytMounted /\ newIndex # ytCurrentIndex
               THEN /\ ytCommits' = ytCommits + 1
                    /\ \E throws \in Throwing :
                         CommitYt(Render([CurYt EXCEPT !.cur = newIndex,
                                                       !.throws = throws],
                                         CurView))
               ELSE UNCHANGED <<ytCommits, ytCurrentIndex, ytIsMuted, ytMounted,
                                ytIsLoaded, callbacks, players, playerState,
                                player, hasCleanup, handles, uncaught, faults>>
    /\ UNCHANGED <<ytLength, ytIsDragging>>
    /\ UNCHANGED NotYouTube

\* handleFacadeClick without its early return: the placeholder, which is
\* rendered in every state but 'ready', restarts loading (mutation).
handleFacadeClickNoReturn ==
    /\ ytMounted
    /\ \E i \in ytVisibleIndices(ytCurrentIndex, ytLength), throws \in Throwing :
         /\ playerState[i] # "ready"
         /\ CommitYt(Render([CurYt EXCEPT !.ps[i] = "loading",
                                           !.throws = throws], CurView))
    /\ UNCHANGED <<ytLength, ytIsDragging, ytSettles, ytCommits>>
    /\ UNCHANGED NotYouTube

\* handleFacadeClick of a rendered item still showing its facade
handleFacadeClick ==
    /\ ytMounted
    /\ \E i \in ytVisibleIndices(ytCurrentIndex, ytLength), throws \in Throwing :
         /\ playerState[i] = "facade"
         /\ CommitYt(Render([CurYt EXCEPT !.ps[i] = "loading",
                                           !.throws = throws], CurView))
    /\ UNCHANGED <<ytLength, ytIsDragging, ytSettles, ytCommits>>
    /\ UNCHANGED NotYouTube

\* handleToggleMute, from the mute button of the active item once ready
handleToggleMute ==
    /\ ytMounted
    /\ playerState[ytCurrentIndex] = "ready"
    /\ \E throws \in Throwing :
         CommitYt(Render([CurYt EXCEPT !.muted = ~ytIsMuted, !.throws = throws],
                         CurView))
    /\ UNCHANGED <<ytLength, ytIsDragging, ytSettles, ytCommits>>
    /\ UNCHANGED NotYouTube

RECURSIVE RunCallbacks(_, _)
RunCallbacks(S, cbs) ==
    IF cbs = << >> THEN S ELSE RunCallbacks(ContinueCreate(S, Head(cbs)), Tail(cbs))

\* window.onYouTubeIframeAPIReady: every awaiting createPlayer() continues.
onYouTubeIframeAPIReady ==
    /\ ~ytIsLoaded
    /\ \E throws \in Throwing :
         CommitYt(RunCallbacks([CurYt EXCEPT !.loaded = TRUE, !.cbs = << >>,
                                             !.throws = throws],
                               callbacks))
    /\ UNCHANGED <<ytLength, ytIsDragging, ytSettles, ytCommits>>
    /\ UNCHANGED NotYouTube

\* onReady of player o, with the isActive and isMuted of the effect run
\* that created it; playVideo() and unMute() are called outside any try,
\* after the state was set.
onReady ==
    /\ \E o \in HandleIds, throws \in Throwing :
         /\ handles[o].item >= 0
         /\ ~handles[o].ready
         /\ LET i == handles[o].item
                S1 == IF ytMounted
                      THEN [CurYt EXCEPT !.ply[i] = o, !.ps[i] = "ready",
                                         !.throws = throws]
                      ELSE [CurYt EXCEPT !.throws = throws]
                S2 == IF handles[o].act /\ throws
                      THEN [S1 EXCEPT !.h[o].ready = TRUE, !.unc = TRUE,
                                      !.threw = TRUE]
                      ELSE [S1 EXCEPT !.h[o].ready = TRUE,
                                      !.h[o].playing = IF handles[o].act THEN TRUE ELSE @,
                                      !.h[o].muted = IF handles[o].act /\ ~handles[o].mut
                                                     THEN FALSE ELSE @]
            IN CommitYt(Render(S2, CurView))
    /\ UNCHANGED <<ytLength, ytIsDragging, ytSettles, ytCommits>>
    /\ UNCHANGED NotYouTube

\* onError writing one error state shared by all the items (mutation).
onErrorShared ==
    /\ \E o \in HandleIds, throws \in Throwing :
         /\ handles[o].item >= 0
         /\ CommitYt(Render(IF ytMounted
                            THEN [CurYt EXCEPT !.ps = [j \in YtItems |-> "error"],
                                               !.throws = throws]
                            ELSE CurYt,
                            CurView))
    /\ UNCHANGED <<ytLength, ytIsDragging, ytSettles, ytCommits>>
    /\ UNCHANGED NotYouTube

\* onError of player o
onError ==
    /\ \E o \in HandleIds, throws \in Throwing :
         /\ handles[o].item >= 0
         /\ LET i == handles[o].item
            IN CommitYt(Render(IF ytMounted
                               THEN [CurYt EXCEPT !.ps[i] = "error",
                                                  !.throws = throws]
                               ELSE CurYt,
                               CurView))
    /\ UNCHANGED <<ytLength, ytIsDragging, ytSettles, ytCommits>>
    /\ UNCHANGED NotYouTube

\* The media of a playing player advances from its beginning.
ytPlayerProgress ==
    /\ \E o \in HandleIds :
         /\ handles[o].item >= 0
         /\ handles[o].playing
         /\ handles[o].pos # 1
         /\ handles' = [handles EXCEPT ![o].pos = 1]
    /\ UNCHANGED <<ytLength, ytCurrentIndex, ytIsDragging, ytSettles, ytCommits,
                   ytIsMuted, ytMounted, ytIsLoaded, callbacks, players,
                   playerState, player, hasCleanup, uncaught, faults>>
    /\ UNCHANGED NotYouTube

\* onStateChange whose handler only seeks back, without playVideo()
\* (mutation).
onStateChangeNoPlay ==
    /\ \E o \in HandleIds, throws \in Throwing :
         /\ handles[o].item >= 0
         /\ handles[o].playing
         /\ handles[o].pos = 1
         /\ CommitYt(IF throws THEN [CurYt EXCEPT !.h[o].playing = FALSE,
                                                   !.unc = TRUE, !.throws = TRUE,
                                                   !.threw = TRUE]
                               ELSE [CurYt EXCEPT !.h[o].pos = 2,
                                                  !.h[o].playing = FALSE])
    /\ UNCHANGED <<ytLength, ytIsDragging, ytSettles, ytCommits>>
    /\ UNCHANGED NotYouTube

\* onStateChange of player o with ENDED, at the end of its media, where the
\* player has stopped: seekTo(0) and playVideo(), called outside any try
onStateChange ==
    /\ \E o \in HandleIds, throws \in Throwing :
         /\ handles[o].item >= 0
         /\ handles[o].playing
         /\ handles[o].pos = 1
         /\ CommitYt(IF throws THEN [CurYt EXCEPT !.h[o].playing = FALSE,
                                                   !.unc = TRUE, !.throws = TRUE,
                                                   !.threw = TRUE]
                               ELSE [CurYt EXCEPT !.h[o].pos = 2,
                                                  !.h[o].playing = TRUE])
    /\ UNCHANGED <<ytLength, ytIsDragging, ytSettles, ytCommits>>
    /\ UNCHANGED NotYouTube

RECURSIVE CleanupAll(_, _)
CleanupAll(S, i) ==
    IF i >= S.length THEN S
    ELSE CleanupAll([Detach(IF S.cln[i] THEN destroyPlayer(S, i) ELSE S, i)
                        EXCEPT !.cln[i] = FALSE], i + 1)

\* Unmount of YouTubeShortsCarousel: the items leave the document and the
\* cleanups of their creation effects run, then ytManager.destroyAll().
ytUnmount ==
    /\ ytMounted
    /\ ytIsDragging' = FALSE
    /\ \E throws \in Throwing :
         CommitYt(destroyAll([CleanupAll([CurYt EXCEPT !.throws = throws], 0)
                                 EXCEPT !.mounted = FALSE], 0))
    /\ UNCHANGED <<ytLength, ytSettles, ytCommits>>
    /\ UNCHANGED NotYouTube

YtNext ==
    \/ ytHandleDragStart
    \/ ytHandleDragEnd
    \/ ytSettleComplete
    \/ handleFacadeClick
    \/ handleToggleMute
    \/ onYouTubeIframeAPIReady
    \/ onReady
    \/ onError
    \/ ytPlayerProgress
    \/ onStateChange
    \/ ytUnmount

\* ---- Properties of YouTubeShortsCarousel ----

\* The players that exist (created and not destroyed), and the items that
\* have a player playing.
LivePlayers == {o \in HandleIds : handles[o].item >= 0}

PlayingItems == {handles[o].item : o \in {p \in LivePlayers : handles[p].playing}}

\* C1: while the carousel is mounted, at most one item has a player in the
\* playing sub-state, for any sequence of index changes and any interleaving
\* of API load completion, player creation, ready notifications and teardown.
AtMostOnePlaying == ytMounted => Cardinality(PlayingItems) <= 1

\* C9: every player that was created and not destroyed is the player
\* registered in ytManager.players for its item, and the carousel is mounted.
NoOrphanedPlayer ==
    \A o \in LivePlayers : ytMounted /\ players[handles[o].item] = o

\* C10: an item outside the mounted window is back in the facade state with
\* no player.
OutOfWindowIsDormant ==
    ytMounted =>
        \A i \in 0..(ytLength - 1) :
            i \notin ytVisibleIndices(ytCurrentIndex, ytLength)
                => /\ playerState[i] = "facade"
                   /\ player[i] = 0

\* C11: the error state of an item is terminal: no step (an index change
\* making the item active, a click on its placeholder, a notification of the
\* provider) takes an item out of 'error', and no player is made for it.
ErrorIsTerminal ==
    [][\A i \in YtItems :
          playerState[i] = "error"
              => /\ playerState'[i] = "error"
                 /\ \A o \in HandleIds : handles'[o].item # i]_vars

\* C11 witness: the first item is in 'error' and has left the window, which
\* it was in when its player reported the error: index changes followed.
ErrorItemLeftWindow ==
    /\ ytMounted
    /\ playerState[0] = "error"
    /\ 0 \notin ytVisibleIndices(ytCurrentIndex, ytLength)

\* C12: a step that takes an item into 'error' leaves currentIndex, the
\* lifecycle state of every other item and every player of the other items
\* (playing or paused, muted or not) as they were.
ErrorTouchesOneItem ==
    [][\A i \in YtItems :
          (playerState[i] # "error" /\ playerState'[i] = "error")
              => /\ ytCurrentIndex' = ytCurrentIndex
                 /\ \A j \in YtItems \ {i} : /\ playerState'[j] = playerState[j]
                                              /\ player'[j] = player[j]
                 /\ \A o \in HandleIds :
                       handles[o].item # i => handles'[o] = handles[o]]_vars

\* C12 witness: the second item is in 'error' while the first item is the
\* active one and has a player playing.
ErrorBesidePlayingActive ==
    /\ ytMounted
    /\ ytCurrentIndex = 0
    /\ playerState[1] = "error"
    /\ \E o \in HandleIds : handles[o].item = 0 /\ handles[o].playing

\* C13: an item in the loading (activating) state always leaves it: it gets
\* ready or error, also when the provider script never finishes loading and
\* the provider never notifies.  Neither YouTubeAPIManager.load() nor the
\* creation effect sets a timer, so such an item stays in 'loading'.
LoadingAlwaysLeaves ==
    \A i \in YtItems :
        (ytMounted /\ playerState[i] = "loading")
            ~> (~ytMounted \/ playerState[i] \in {"ready", "error"})

\* C14: every call into the provider is guarded: no exception of such a
\* call leaves the program's code.  new window.YT.Player in createPlayer,
\* playVideo() and unMute() in the onReady callback and seekTo() and
\* playVideo() in the onStateChange callback are made outside any try.
ProviderCallsGuarded == ~uncaught

\* C31: when the provider signals ready for an item's player, playVideo()
\* is called only if the item is the active index at that moment and
\* unMute() only if, besides, isMuted is off; the player of an item that is
\* not active when it becomes ready is left paused and muted.  The callback
\* calls playVideo() and unMute() on the isActive and isMuted of the effect
\* run that asked for the player (act and mut of the player).
ReadyAppliesCurrentIntent ==
    [][\A o \in HandleIds :
          (handles[o].item >= 0 /\ ~handles[o].ready /\ handles'[o].ready)
              => /\ handles[o].act => handles[o].item = ytCurrentIndex
                 /\ (handles[o].act /\ ~handles[o].mut) => ~ytIsMuted
                 /\ handles[o].item # ytCurrentIndex'
                        => (~handles'[o].playing /\ handles'[o].muted)]_vars

ReadyHasLivePlayer ==
    ytMounted =>
        \A i \in ytVisibleIndices(ytCurrentIndex, ytLength) :
            playerState[i] = "ready"
                => /\ player[i] > 0
                   /\ handles[player[i]].item = i

(***************************************************************************)
(* The visibleIndices computations of OptimizedCarousel and                *)
(* YouTubeShortsCarousel, applied to every item count and current index    *)
(* within the bound.                                                       *)
(***************************************************************************)
\* Bound of the model.
MaxWinItems == 8

\* The value of a memo that no render has computed yet.
NotComputed == {0 - 1}

\* currentIndex starts at 0 and stays below the item count.
WinInit ==
    /\ winLength \in 0..MaxWinItems
    /\ winIndex \in 0..Max(winLength - 1, 0)
    /\ ocVisible = NotComputed
    /\ ytVisible = NotComputed
    /\ ocPreloads = NotComputed

\* The useMemo of OptimizedCarousel
ocComputeVisible ==
    /\ ocVisible' = ocVisibleIndices(winIndex, winLength)
    /\ UNCHANGED <<winLength, winIndex, ytVisible, ocPreloads>>
    /\ UNCHANGED NotWindow

\* The useMemo of YouTubeShortsCarousel
ytComputeVisible ==
    /\ ytVisible' = ytVisibleIndices(winIndex, winLength)
    /\ UNCHANGED <<winLength, winIndex, ocVisible, ocPreloads>>
    /\ UNCHANGED NotWindow

\* The calls of preloader.preload one preloadVideos() makes: the current
\* item if there is one, then indicesToPreload.
preloadCalls(cur, length) ==
    (IF cur < length THEN {cur} ELSE {}) \cup SeqRange(indicesToPreload(cur, length))

\* The preload effect of OptimizedCarousel, run to the end of preloadVideos()
ocPreloadVideos ==
    /\ ocPreloads' = preloadCalls(winIndex, winLength)
    /\ UNCHANGED <<winLength, winIndex, ocVisible, ytVisible>>
    /\ UNCHANGED NotWindow

WinNext ==
    \/ ocComputeVisible
    \/ ytComputeVisible
    \/ ocPreloadVideos

\* ---- Properties of the window computations ----

\* C16: for every item count N and current index c in [0, N) the mounted set
\* a carousel computes is exactly {i : max(0, c - radius) <= i <=
\* min(N - 1, c + radius)}, radius being the carousel's RENDER_WINDOW.
\* YouTubeShortsCarousel runs its loop up to RENDER_WINDOW + PRELOAD_AHEAD.
MountedIsClippedRange ==
    /\ ocVisible # NotComputed =>
          ocVisible = {i \in 0..(winLength - 1) :
                         /\ Max(0, winIndex - OC_RENDER_WINDOW) <= i
                         /\ i <= Min(winLength - 1, winIndex + OC_RENDER_WINDOW)}
    /\ ytVisible # NotComputed =>
          ytVisible = {i \in 0..(winLength - 1) :
                         /\ Max(0, winIndex - YT_RENDER_WINDOW) <= i
                         /\ i <= Min(winLength - 1, winIndex + YT_RENDER_WINDOW)}

\* C17: for all N >= 0 and any current index in [0, N) the mounted set has
\* exactly min(N, 2 * radius + 1) elements.  The loops drop the indices
\* outside [0, N - 1] without shifting the range, so that near either end
\* the set is smaller.
MountedSizeIsFullWindow ==
    /\ ocVisible # NotComputed =>
          Cardinality(ocVisible) = Min(winLength, 2 * OC_RENDER_WINDOW + 1)
    /\ ytVisible # NotComputed =>
          Cardinality(ytVisible) = Min(winLength, 2 * YT_RENDER_WINDOW + 1)

MaxGesItems == 4

\* The value of newIndex before handleDragEnd has computed it.
NotReleased == 0 - 1

\* Release offsets and velocities: at, just beyond, well below and far
\* beyond the thresholds of the carousels, in both directions.
GesOffsets ==
    Offsets \cup YtOffsets \cup {0 - YT_DRAG_BUFFER, YT_DRAG_BUFFER, 10}
            \cup {0 - 10 * DRAG_BUFFER, 10 * DRAG_BUFFER}
GesVelocities ==
    Velocities \cup YtVelocities \cup {0 - YT_VELOCITY_THRESHOLD, YT_VELOCITY_THRESHOLD, 10}
               \cup {0 - 10 * VELOCITY_THRESHOLD, 10 * VELOCITY_THRESHOLD}

GesInit ==
    /\ gesLength \in 0..MaxGesItems
    /\ gesIndex \in 0..Max(gesLength - 1, 0)
    /\ gesOffset \in GesOffsets
    /\ gesVelocity \in GesVelocities
    /\ gesLoop \in BOOLEAN
    /\ carNewIndex = NotReleased
    /\ ytNewIndex = NotReleased
    /\ ocNewIndex = NotReleased
    /\ carAutoIndex = NotReleased

\* The newIndex computed by handleDragEnd of Carousel
carRelease ==
    /\ carNewIndex' = getNextIndex(gesIndex, gesOffset, gesVelocity, gesLength, gesLoop)
    /\ UNCHANGED <<gesIndex, gesOffset, gesVelocity, gesLength, gesLoop,
                   ytNewIndex, ocNewIndex, carAutoIndex>>
    /\ UNCHANGED NotGesture

\* The newIndex computed by handleDragEnd of YouTubeShortsCarousel
ytRelease ==
    /\ ytNewIndex' = ytGetNextIndex(gesIndex, gesOffset, gesVelocity, gesLength)
    /\ UNCHANGED <<gesIndex, gesOffset, gesVelocity, gesLength, gesLoop,
                   carNewIndex, ocNewIndex, carAutoIndex>>
    /\ UNCHANGED NotGesture

\* The newIndex computed by handleDragEnd of OptimizedCarousel
ocRelease ==
    /\ ocNewIndex' = ocGetNextIndex(gesIndex, gesOffset, gesVelocity, gesLength)
    /\ UNCHANGED <<gesIndex, gesOffset, gesVelocity, gesLength, gesLoop,
                   carNewIndex, ytNewIndex, carAutoIndex>>
    /\ UNCHANGED NotGesture

\* The index a tick of the autoplay interval of Carousel sets from the
\* same current index
carAutoplayTick ==
    /\ carAutoIndex' = getAutoPlayIndex(gesIndex, gesLength, gesLoop)
    /\ UNCHANGED <<gesIndex, gesOffset, gesVelocity, gesLength, gesLoop,
                   carNewIndex, ytNewIndex, ocNewIndex>>
    /\ UNCHANGED NotGesture

GesNext ==
    \/ carRelease
    \/ ytRelease
    \/ ocRelease
    \/ carAutoplayTick

\* ---- Properties of getNextIndex ----

\* C19: on a feed with items, getNextIndex moves one position forward when
\* offset < -DRAG_BUFFER or velocity < -VELOCITY_THRESHOLD, otherwise one
\* position backward when offset > DRAG_BUFFER or velocity >
\* VELOCITY_THRESHOLD, otherwise it returns the current index; either signal
\* alone is enough, and a release below both thresholds is cancelled.  (At
\* an end of the feed the move is subject to the boundary policy.)
GestureDecidesDirection ==
    LET last == gesLength - 1
        forward(wrap) == IF gesIndex < last THEN gesIndex + 1
                         ELSE IF wrap THEN 0 ELSE gesIndex
        backward(wrap) == IF gesIndex > 0 THEN gesIndex - 1
                          ELSE IF wrap THEN last ELSE gesIndex
        expected(buffer, threshold, wrap) ==
            IF gesOffset < 0 - buffer \/ gesVelocity < 0 - threshold
            THEN forward(wrap)
            ELSE IF gesOffset > buffer \/ gesVelocity > threshold
                 THEN backward(wrap)
            ELSE gesIndex
    IN gesLength >= 1 =>
         /\ carNewIndex # NotReleased =>
               carNewIndex = expected(DRAG_BUFFER, VELOCITY_THRESHOLD, gesLoop)
         /\ ytNewIndex # NotReleased =>
               ytNewIndex = expected(YT_DRAG_BUFFER, YT_VELOCITY_THRESHOLD, FALSE)

\* C19 witness: a release with a small offset and a velocity beyond the
\* threshold alone has moved Carousel one position forward.
VelocityAloneAdvances ==
    /\ gesOffset = 10
    /\ gesVelocity < 0 - VELOCITY_THRESHOLD
    /\ carNewIndex = gesIndex + 1

\* C20: for N >= 1 and a current index in [0, N - 1] getNextIndex of
\* Carousel returns an index in [0, N - 1]; without loop a forward release
\* at N - 1 and a backward release at 0 return the current index, with loop
\* they return 0 and N - 1.
NextIndexStaysInFeed ==
    LET last == gesLength - 1
        isForward == gesOffset < 0 - DRAG_BUFFER \/ gesVelocity < 0 - VELOCITY_THRESHOLD
        isBackward == ~isForward /\ (gesOffset > DRAG_BUFFER \/ gesVelocity > VELOCITY_THRESHOLD)
    IN (gesLength >= 1 /\ carNewIndex # NotReleased) =>
         /\ 0 <= carNewIndex /\ carNewIndex <= last
         /\ (isForward /\ gesIndex = last) =>
               carNewIndex = (IF gesLoop THEN 0 ELSE last)
         /\ (isBackward /\ gesIndex = 0) =>
               carNewIndex = (IF gesLoop THEN last ELSE 0)

\* C20 witness: with loop, a forward release on the last of several items
\* has returned 0.
ForwardAtLastWraps ==
    /\ gesLoop
    /\ gesLength > 1
    /\ gesIndex = gesLength - 1
    /\ gesOffset < 0 - DRAG_BUFFER
    /\ carNewIndex = 0

\* C21: a release moves the index by at most one position, cyclically with
\* loop, however large the offset or the velocity of the release.
AtMostOneStepPerRelease ==
    LET oneStep(new, wrap) ==
            \/ new - gesIndex \in {0 - 1, 0, 1}
            \/ wrap /\ gesLength >= 1
                    /\ (new - gesIndex) % gesLength \in {1, gesLength - 1}
    IN /\ carNewIndex # NotReleased => oneStep(carNewIndex, gesLoop)
       /\ ocNewIndex # NotReleased => oneStep(ocNewIndex, FALSE)

\* C21 witness: a release ten times beyond both thresholds, with two items
\* ahead, has moved OptimizedCarousel to the next item only.
LongFlingAdvancesOne ==
    /\ gesOffset = 0 - 10 * DRAG_BUFFER
    /\ gesVelocity = 0 - 10 * VELOCITY_THRESHOLD
    /\ gesIndex + 2 < gesLength
    /\ ocNewIndex = gesIndex + 1

\* C34: an autoplay tick changes the index as a forward release does: for
\* every current index, item count and loop setting,
\* getAutoPlayIndex(current, N, loop) is getNextIndex(current, offset,
\* velocity, N, loop) for every offset below -DRAG_BUFFER, whatever the
\* velocity.
AutoplayIsForwardRelease ==
    (/\ carAutoIndex # NotReleased
     /\ carNewIndex # NotReleased
     /\ gesOffset < 0 - DRAG_BUFFER) => carAutoIndex = carNewIndex

\* C34 witness: with loop, on the last of several items, a tick and a release
\* with a forward offset and a backward velocity have both wrapped to 0.
TickAndReleaseWrap ==
    /\ gesLoop
    /\ gesLength > 1
    /\ gesIndex = gesLength - 1
    /\ gesOffset < 0 - DRAG_BUFFER
    /\ gesVelocity > VELOCITY_THRESHOLD
    /\ carAutoIndex = 0
    /\ carNewIndex = 0

\* C39: when the offset and the velocity of a release disagree in direction,
\* one beyond its forward threshold and the other beyond its backward
\* threshold, getNextIndex of Carousel and of OptimizedCarousel move forward
\* (subject to the boundary policy at the last item).
ForwardTakesPrecedence ==
    LET last == gesLength - 1
        forward(wrap) == IF gesIndex < last THEN gesIndex + 1
                         ELSE IF wrap THEN 0 ELSE gesIndex
        disagree(buffer, threshold) ==
            \/ gesOffset < 0 - buffer /\ gesVelocity > threshold
            \/ gesVelocity < 0 - threshold /\ gesOffset > buffer
    IN gesLength >= 1 =>
         /\ (carNewIndex # NotReleased /\ disagree(DRAG_BUFFER, VELOCITY_THRESHOLD))
               => carNewIndex = forward(gesLoop)
         /\ (ocNewIndex # NotReleased /\ disagree(OC_DRAG_BUFFER, OC_VELOCITY_THRESHOLD))
               => ocNewIndex = forward(FALSE)

\* C39 witness: a release with a backward offset and a forward velocity,
\* both beyond their thresholds, has moved Carousel and OptimizedCarousel
\* from the second of three items to the third.
BackwardOffsetForwardVelocity ==
    /\ gesLength = 3
    /\ gesIndex = 1
    /\ gesOffset > DRAG_BUFFER
    /\ gesVelocity < 0 - VELOCITY_THRESHOLD
    /\ carNewIndex = 2
    /\ ocNewIndex = 2

(***************************************************************************)
(* extractYouTubeId and the videoIds memo of YouTubeShortsCarousel.        *)
(*                                                                         *)
(* A string is the sequence of its characters.  String.match without the   *)
(* g flag returns the leftmost match, and the groups ([a-zA-Z0-9_-]{11})   *)
(* capture the eleven characters that follow the literal part.             *)
(***************************************************************************)
\* Bound of the model.
MaxExItems == 3

\* null
Null == <<"null">>

\* [a-zA-Z0-9_-]
IdChars ==
    {"a", "b", "c", "d", "e", "f", "g", "h", "i", "j", "k", "l", "m", "n",
    "o", "p", "q", "r", "s", "t", "u", "v", "w", "x", "y", "z", "A", "B",
    "C", "D", "E", "F", "G", "H", "I", "J", "K", "L", "M", "N", "O", "P",
    "Q", "R", "S", "T", "U", "V", "W", "X", "Y", "Z", "0", "1", "2", "3",
    "4", "5", "6", "7", "8", "9", "_", "-"}

\* The literal parts of the patterns.
YOUTU_BE == <<"y", "o", "u", "t", "u", ".", "b", "e", "/">>
YOUTUBE_COM == <<"y", "o", "u", "t", "u", "b", "e", ".", "c", "o", "m", "/">>
WATCH_V == <<"w", "a", "t", "c", "h", "?", "v", "=">>
SHORTS == <<"s", "h", "o", "r", "t", "s", "/">>
EMBED == <<"e", "m", "b", "e", "d", "/">>

\* The literal lit stands at position p of s.
LitAt(s, p, lit) ==
    /\ p + Len(lit) - 1 <= Len(s)
    /\ SubSeq(s, p, p + Len(lit) - 1) = lit

\* [a-zA-Z0-9_-]{11} matches at position p of s.
IdAt(s, p) ==
    /\ p + 10 <= Len(s)
    /\ \A k \in p..(p + 10) : s[k] \in IdChars

\* The first group of the leftmost match of a pattern made of one of the
\* literals lits followed by the group, or Null without a match.
Match(s, lits) ==
    LET at(p) == {lit \in lits : LitAt(s, p, lit) /\ IdAt(s, p + Len(lit))}
        ps == {p \in 1..Len(s) : at(p) # {}}
    IN IF ps = {} THEN Null
       ELSE LET p == CHOOSE q \in ps : \A r \in ps : q <= r
                lit == CHOOSE l \in at(p) : TRUE
            IN SubSeq(s, p + Len(lit), p + Len(lit) + 10)

\* url.match(/youtu\.be\/([a-zA-Z0-9_-]{11})/)
shortMatch(url) == Match(url, {YOUTU_BE})

\* url.match(/(?:youtube\.com\/(?:watch\?v=|shorts\/|embed\/))([a-zA-Z0-9_-]{11})/)
longMatch(url) ==
    Match(url, {YOUTUBE_COM \o WATCH_V, YOUTUBE_COM \o SHORTS, YOUTUBE_COM \o EMBED})

\* /^[a-zA-Z0-9_-]{11}$/.test(url)
isDirectId(url) == Len(url) = 11 /\ IdAt(url, 1)

\* extractYouTubeId with the direct-id test left unanchored (mutation).
extractYouTubeIdUnanchored(url) ==
    IF url = << >> THEN Null
    ELSE IF shortMatch(url) # Null THEN shortMatch(url)
    ELSE IF longMatch(url) # Null THEN longMatch(url)
    ELSE IF \E p \in 1..Len(url) : IdAt(url, p) THEN url
    ELSE Null

\* extractYouTubeId without the youtu.be pattern (mutation).
extractYouTubeIdNoShort(url) ==
    IF url = << >> THEN Null
    ELSE IF longMatch(url) # Null THEN longMatch(url)
    ELSE IF isDirectId(url) THEN url
    ELSE Null

\* extractYouTubeId(url)
extractYouTubeId(url) ==
    IF url = << >> THEN Null
    ELSE IF shortMatch(url) # Null THEN shortMatch(url)
    ELSE IF longMatch(url) # Null THEN longMatch(url)
    ELSE IF isDirectId(url) THEN url
    ELSE Null

\* items.map(extractYouTubeId).filter(Boolean) keeping the null results
\* (mutation).
videoIdsOfUnfiltered(items) ==
    [k \in 1..Len(items) |-> extractYouTubeId(items[k])]

\* items.map(extractYouTubeId).filter(Boolean): filter drops the falsy
\* results, null and the empty string.
videoIdsOf(items) ==
    SelectSeq([k \in 1..Len(items) |-> extractYouTubeId(items[k])],
              LAMBDA r : r # Null /\ r # << >>)

\* ---- The inputs ----
HTTPS == <<"h", "t", "t", "p", "s", ":", "/", "/">>
WWW == <<"w", "w", "w", ".">>

\* Video ids.
Ids == {<<"a", "b", "c", "1", "2", "3", "4", "5", "6", "7", "8">>, <<"d", "Q", "w", "4", "w", "9", "W", "g", "X", "c", "Q">>, <<"n", "o", "t", "-", "a", "-", "v", "i", "d", "e", "o">>, <<"_", "-", "_", "-", "_", "-", "_", "-", "_", "-", "0">>}

\* The reference forms of an id.
shortLinkForm(x) == HTTPS \o YOUTU_BE \o x
watchForm(x) == HTTPS \o WWW \o YOUTUBE_COM \o WATCH_V \o x
embedForm(x) == HTTPS \o WWW \o YOUTUBE_COM \o EMBED \o x
shortsForm(x) == HTTPS \o YOUTUBE_COM \o SHORTS \o x
FormsOf(x) ==
    {shortLinkForm(x), watchForm(x), embedForm(x), shortsForm(x), x,
     YOUTU_BE \o x, watchForm(x) \o <<"&", "t", "=", "1", "s">>, shortLinkForm(x) \o <<"?", "s", "i", "=", "a">>}

\* Strings that are none of the forms: empty, with a space, ten and twelve
\* characters, other hosts, forms with a short or missing id, a form of
\* another scheme of the host.
Others ==
    {<< >>, <<"n", "o", "t", " ", "a", " ", "v", "i", "d", "e", "o">>, <<"a", "b", "c", "1", "2", "3", "4", "5", "6", "7">>, <<"a", "b", "c", "1", "2", "3", "4", "5", "6", "7", "8", "9">>,
     <<"h", "t", "t", "p", "s", ":", "/", "/", "s", "h", "o", "r", "t", "/", "a", "b", "c", "1", "2", "3", "4", "5", "6", "7", "8">>, <<"h", "t", "t", "p", "s", ":", "/", "/", "e", "x", "a", "m", "p", "l", "e", ".", "c", "o", "m", "/", "a", ".", "m", "p", "4">>,
     HTTPS \o YOUTU_BE \o <<"a", "b", "c", "1", "2", "3">>, HTTPS \o WWW \o YOUTUBE_COM \o WATCH_V,
     HTTPS \o WWW \o YOUTUBE_COM \o <<"v", "/", "a", "b", "c", "1", "2", "3", "4", "5", "6", "7", "8">>, <<"a", "b", "c", " ", "1", "2", "3", "4", "5", "6", "7", "8">>}

Raws == UNION {FormsOf(x) : x \in Ids} \cup Others

\* The entries of the feeds.
FeedRaws ==
    {<<"h", "t", "t", "p", "s", ":", "/", "/", "s", "h", "o", "r", "t", "/", "a", "b", "c", "1", "2", "3", "4", "5", "6", "7", "8">>, shortLinkForm(<<"a", "b", "c", "1", "2", "3", "4", "5", "6", "7", "8">>), <<"a", "b", "c", "1", "2", "3", "4", "5", "6", "7", "8">>,
     <<"n", "o", "t", "-", "a", "-", "v", "i", "d", "e", "o">>, <<"n", "o", "t", " ", "a", " ", "v", "i", "d", "e", "o">>, watchForm(<<"d", "Q", "w", "4", "w", "9", "W", "g", "X", "c", "Q">>)}

Feeds == UNION {[1..n -> FeedRaws] : n \in 0..MaxExItems}

ResInit ==
    /\ exUrl \in Raws
    /\ exId = Null
    /\ exDone = FALSE
    /\ exAgain = Null
    /\ exItems \in Feeds
    /\ exVideoIds = << >>
    /\ exMemoDone = FALSE

\* A call extractYouTubeId(exUrl)
extractCall ==
    /\ ~exDone
    /\ exId' = extractYouTubeId(exUrl)
    /\ exDone' = TRUE
    /\ UNCHANGED <<exUrl, exAgain, exItems, exVideoIds, exMemoDone>>
    /\ UNCHANGED NotResolver

\* A call of extractYouTubeId on the id an earlier call returned
extractAgain ==
    /\ exDone
    /\ exId # Null
    /\ exAgain = Null
    /\ exAgain' = extractYouTubeId(exId)
    /\ UNCHANGED <<exUrl, exId, exDone, exItems, exVideoIds, exMemoDone>>
    /\ UNCHANGED NotResolver

\* The videoIds memo of a render
videoIdsMemo ==
    /\ ~exMemoDone
    /\ exVideoIds' = videoIdsOf(exItems)
    /\ exMemoDone' = TRUE
    /\ UNCHANGED <<exUrl, exId, exDone, exAgain, exItems>>
    /\ UNCHANGED NotResolver

ResNext ==
    \/ extractCall
    \/ extractAgain
    \/ videoIdsMemo

\* ---- Properties of extractYouTubeId and videoIds ----

\* C25: for every id x the short link, each of the watch?v=, embed/ and
\* shorts/ URLs and x itself resolve to x, and resolving a resolved id
\* returns it unchanged.
ResolvesEveryFormToId ==
    /\ exDone => \A x \in Ids : exUrl \in FormsOf(x) => exId = x
    /\ exAgain # Null => exAgain = exId

\* C25 witness: a short link has resolved to its id, and the id to itself.
ShortLinkResolvedTwice ==
    /\ exUrl = shortLinkForm(<<"d", "Q", "w", "4", "w", "9", "W", "g", "X", "c", "Q">>)
    /\ exId = <<"d", "Q", "w", "4", "w", "9", "W", "g", "X", "c", "Q">>
    /\ exAgain = exId

\* C26: extractYouTubeId returns null for every string that is none of the
\* reference forms, and videoIds is exactly the non-null results of the
\* items, in their original relative order.
UnresolvedAreDropped ==
    /\ (exDone /\ exUrl \in Others) => exId = Null
    /\ exMemoDone =>
         LET kept == {k \in 1..Len(exItems) : extractYouTubeId(exItems[k]) # Null}
             place(k) == Cardinality({j \in kept : j <= k})
         IN /\ Len(exVideoIds) = Cardinality(kept)
            /\ \A k \in kept : exVideoIds[place(k)] = extractYouTubeId(exItems[k])

\* C26 witness: of three items the second was dropped and the two others,
\* different videos, were kept in their order.
MiddleItemDropped ==
    /\ exMemoDone
    /\ Len(exItems) = 3
    /\ exItems[2] = <<"n", "o", "t", " ", "a", " ", "v", "i", "d", "e", "o">>
    /\ exVideoIds = <<<<"a", "b", "c", "1", "2", "3", "4", "5", "6", "7", "8">>, <<"d", "Q", "w", "4", "w", "9", "W", "g", "X", "c", "Q">>>>

\* C27, as stated: the raw feed ["https://short/abc12345678", "abc12345678",
\* "not-a-video"] yields exactly two identifiers, both abc12345678.
\* "not-a-video" is eleven characters of [a-zA-Z0-9_-] and is returned as an
\* id, and "https://short/..." is not a youtu.be link.
ScenarioDTwoEqualIds ==
    (exMemoDone /\ exItems = <<<<"h", "t", "t", "p", "s", ":", "/", "/", "s", "h", "o", "r", "t", "/", "a", "b", "c", "1", "2", "3", "4", "5", "6", "7", "8">>, <<"a", "b", "c", "1", "2", "3", "4", "5", "6", "7", "8">>, <<"n", "o", "t", "-", "a", "-", "v", "i", "d", "e", "o">>>>)
        => exVideoIds = <<<<"a", "b", "c", "1", "2", "3", "4", "5", "6", "7", "8">>, <<"a", "b", "c", "1", "2", "3", "4", "5", "6", "7", "8">>>>

\* C27, amended: the raw feed [youtu.be short link of abc12345678,
\* "abc12345678", "not a video"] yields exactly two identifiers, both
\* abc12345678, in order; with "not-a-video" as the third entry that
\* entry is kept as a third identifier, and the entry
\* "https://short/abc12345678" is dropped.
ScenarioDWithProviderLink ==
    LET abc == <<"a", "b", "c", "1", "2", "3", "4", "5", "6", "7", "8">>
    IN exMemoDone =>
         /\ exItems = <<shortLinkForm(abc), abc, <<"n", "o", "t", " ", "a", " ", "v", "i", "d", "e", "o">>>>
              => exVideoIds = <<abc, abc>>
         /\ exItems = <<shortLinkForm(abc), abc, <<"n", "o", "t", "-", "a", "-", "v", "i", "d", "e", "o">>>>
              => exVideoIds = <<abc, abc, <<"n", "o", "t", "-", "a", "-", "v", "i", "d", "e", "o">>>>
         /\ exItems = <<<<"h", "t", "t", "p", "s", ":", "/", "/", "s", "h", "o", "r", "t", "/", "a", "b", "c", "1", "2", "3", "4", "5", "6", "7", "8">>, abc, <<"n", "o", "t", "-", "a", "-", "v", "i", "d", "e", "o">>>>
              => exVideoIds = <<abc, <<"n", "o", "t", "-", "a", "-", "v", "i", "d", "e", "o">>>>

\* C27 witness: the feed of a short link, the bare id and "not a video" has
\* been resolved to two ids.
ScenarioDResolved ==
    /\ exMemoDone
    /\ exItems = <<shortLinkForm(<<"a", "b", "c", "1", "2", "3", "4", "5", "6", "7", "8">>), <<"a", "b", "c", "1", "2", "3", "4", "5", "6", "7", "8">>, <<"n", "o", "t", " ", "a", " ", "v", "i", "d", "e", "o">>>>
    /\ Len(exVideoIds) = 2

(***************************************************************************)
(* App (src/src/App.jsx): the category tabs and the feed request.          *)
(*                                                                         *)
(* A click on a tab renders the new category and runs the fetch effect in  *)
(* the same task.  The setLoading(true) of the effect is an update of      *)
(* default priority: it is rendered by a later task of the scheduler, and  *)
(* until then the tabs stay on screen.  The continuation of a response     *)
(* makes its setData, setError and setLoading calls in one batch.          *)
(***************************************************************************)
\* Bound of the model.
MaxRequests == 3

\* CATEGORIES of categoriesTab.js
CATEGORIES == {"Stories", "Pravachan", "Bhajan", "Darshan"}

\* null
NoData == [category |-> "null", reels |-> 0]

\* The reels of a response: none or some.
Reels == 0..1

InFlight == {c \in CATEGORIES : appPending[c] > 0}

\* The tabs are rendered only past the loading, error and "no reels" returns.
TabsRendered ==
    /\ ~appLoading
    /\ appError = "null"
    /\ appData.reels > 0

\* useState initial values and the fetch effect of the first render.
AppInit ==
    /\ appCategory = "Stories"
    /\ appLoading = TRUE
    /\ appData = NoData
    /\ appError = "null"
    /\ appPending = [c \in CATEGORIES |-> IF c = "Stories" THEN 1 ELSE 0]
    /\ appQueued = FALSE

\* handleCategoryChange(newCategory) from a tab: setCategory, the render and
\* the fetch effect of the new category.
handleCategoryChange ==
    /\ TabsRendered
    /\ \E newCategory \in CATEGORIES \ {appCategory} :
         /\ appPending[newCategory] < MaxRequests
         /\ appCategory' = newCategory
         /\ appPending' = [appPending EXCEPT ![newCategory] = @ + 1]
    /\ appQueued' = TRUE
    /\ UNCHANGED <<appLoading, appData, appError>>
    /\ UNCHANGED NotApp

\* The render of the queued setLoading(true)
renderLoading ==
    /\ appQueued
    /\ appLoading' = TRUE
    /\ appQueued' = FALSE
    /\ UNCHANGED <<appCategory, appData, appError, appPending>>
    /\ UNCHANGED NotApp

\* The response of a request arrives with response.ok: setData(result),
\* setError(null), and setLoading(false) in finally.
responseOk ==
    /\ \E c \in InFlight, n \in Reels :
         /\ appPending' = [appPending EXCEPT ![c] = @ - 1]
         /\ appData' = [category |-> c, reels |-> n]
    /\ appError' = "null"
    /\ appLoading' = FALSE
    /\ appQueued' = FALSE
    /\ UNCHANGED appCategory
    /\ UNCHANGED NotApp

\* The request fails or !response.ok: setError(err.message), setData(null),
\* and setLoading(false) in finally.
responseError ==
    /\ \E c \in InFlight :
         /\ appPending' = [appPending EXCEPT ![c] = @ - 1]
         /\ appError' = c
    /\ appData' = NoData
    /\ appLoading' = FALSE
    /\ appQueued' = FALSE
    /\ UNCHANGED appCategory
    /\ UNCHANGED NotApp

AppNext ==
    \/ handleCategoryChange
    \/ renderLoading
    \/ responseOk
    \/ responseError

\* ---- Properties of App ----

\* C28: a category change cancels the request still pending, so that once
\* loading has finished the feed data or the error shown belongs to the
\* category selected last, in whatever order the responses arrive.
\* fetchData has no AbortController, and every response is kept.
ShownFeedIsOfSelectedCategory ==
    (~appLoading /\ ~appQueued /\ InFlight = {}) =>
        /\ appData # NoData => appData.category = appCategory
        /\ appError # "null" => appError = appCategory

(***************************************************************************)
(* YouTubePlayer (src/src/components/YouTubePlayer.jsx): one player, its   *)
(* click, message and visibilitychange listeners.                          *)
(***************************************************************************)
\* YT.PlayerState
UNSTARTED == 0 - 1
ENDED == 0
PLAYING == 1
PAUSED == 2
BUFFERING == 3
CUED == 5

\* The videos the prop takes.
VideoIds == {"a", "b", "c"}

\* player.playVideo()
playVideo(state) == PLAYING

\* player.pauseVideo(): a video that plays or buffers becomes paused, any
\* other state stays.
pauseVideo(state) == IF state \in {PLAYING, BUFFERING, PAUSED} THEN PAUSED ELSE state

\* The first render on a page without the IFrame API.
YpInit ==
    /\ ypApiReady = FALSE
    /\ ypVideoId \in VideoIds
    /\ ypPlayer = FALSE
    /\ ypReady = FALSE
    /\ ypState = UNSTARTED
    /\ docHidden = FALSE
    /\ ypMounted = TRUE
    /\ playingAtHide = FALSE

\* window.onYouTubeIframeAPIReady: setReady(true), and the creation effect
\* makes the player.
ypApiLoaded ==
    /\ ypMounted /\ ~ypApiReady
    /\ ypApiReady' = TRUE
    /\ ypPlayer' = TRUE
    /\ ypReady' = FALSE
    /\ ypState' = UNSTARTED
    /\ UNCHANGED <<ypVideoId, docHidden, ypMounted, playingAtHide>>
    /\ UNCHANGED NotPlayer

\* A render with another videoId: the cleanup destroys the player and the
\* effect makes the next one.
ypVideoIdChanges ==
    /\ ypMounted
    /\ \E v \in VideoIds \ {ypVideoId} : ypVideoId' = v
    /\ ypPlayer' = ypApiReady
    /\ ypReady' = FALSE
    /\ ypState' = UNSTARTED
    /\ UNCHANGED <<ypApiReady, docHidden, ypMounted, playingAtHide>>
    /\ UNCHANGED NotPlayer

\* events.onReady: e.target.playVideo()
ypOnReady ==
    /\ ypPlayer /\ ~ypReady
    /\ ypReady' = TRUE
    /\ ypState' = playVideo(ypState)
    /\ UNCHANGED <<ypApiReady, ypVideoId, ypPlayer, docHidden, ypMounted,
                   playingAtHide>>
    /\ UNCHANGED NotPlayer

\* handleClick: a click on the container of a visible tab
ypHandleClick ==
    /\ ypMounted /\ ~docHidden
    /\ ypState' = IF ~ypPlayer THEN ypState
                  ELSE IF ypState = PLAYING THEN pauseVideo(ypState)
                  ELSE IF ypState \in {PAUSED, UNSTARTED, ENDED, CUED}
                       THEN playVideo(ypState)
                  ELSE ypState
    /\ UNCHANGED <<ypApiReady, ypVideoId, ypPlayer, ypReady, docHidden,
                   ypMounted, playingAtHide>>
    /\ UNCHANGED NotPlayer

\* handleMessage: a message {action: 'play'} or {action: 'pause'}
ypHandleMessage ==
    /\ ypMounted
    /\ \E action \in {"play", "pause"} :
         ypState' = IF ~ypPlayer THEN ypState
                    ELSE IF action = "play" THEN playVideo(ypState)
                    ELSE pauseVideo(ypState)
    /\ UNCHANGED <<ypApiReady, ypVideoId, ypPlayer, ypReady, docHidden,
                   ypMounted, playingAtHide>>
    /\ UNCHANGED NotPlayer

\* The player itself: a playing video buffers, resumes, or ends.
ypPlayerProgress ==
    /\ ypPlayer /\ ypReady
    /\ \/ ypState = PLAYING /\ ypState' \in {BUFFERING, ENDED}
       \/ ypState = BUFFERING /\ ypState' = PLAYING
    /\ UNCHANGED <<ypApiReady, ypVideoId, ypPlayer, ypReady, docHidden,
                   ypMounted, playingAtHide>>
    /\ UNCHANGED NotPlayer

\* handleVisibilityChange with document.hidden: pauseVideo()
ypTabHidden ==
    /\ ypMounted /\ ~docHidden
    /\ docHidden' = TRUE
    /\ playingAtHide' = (ypPlayer /\ ypState \in {PLAYING, BUFFERING})
    /\ ypState' = IF ypPlayer THEN pauseVideo(ypState) ELSE ypState
    /\ UNCHANGED <<ypApiReady, ypVideoId, ypPlayer, ypReady, ypMounted>>
    /\ UNCHANGED NotPlayer

\* handleVisibilityChange with the tab visible again: playVideo() if
\* getPlayerState() === 2
ypTabVisible ==
    /\ ypMounted /\ docHidden
    /\ docHidden' = FALSE
    /\ ypState' = IF ypPlayer /\ ypState = PAUSED
                  THEN playVideo(ypState) ELSE ypState
    /\ UNCHANGED <<ypApiReady, ypVideoId, ypPlayer, ypReady, ypMounted,
                   playingAtHide>>
    /\ UNCHANGED NotPlayer

\* Unmount: the cleanup of the creation effect destroys the player.
ypUnmount ==
    /\ ypMounted
    /\ ypMounted' = FALSE
    /\ ypPlayer' = FALSE
    /\ ypReady' = FALSE
    /\ ypState' = UNSTARTED
    /\ UNCHANGED <<ypApiReady, ypVideoId, docHidden, playingAtHide>>
    /\ UNCHANGED NotPlayer

\* A later mount on the same page: apiReady starts as
\* !!(window.YT && window.YT.Player).
ypMount ==
    /\ ~ypMounted
    /\ ypMounted' = TRUE
    /\ \E v \in VideoIds : ypVideoId' = v
    /\ ypPlayer' = ypApiReady
    /\ ypReady' = FALSE
    /\ ypState' = UNSTARTED
    /\ UNCHANGED <<ypApiReady, docHidden, playingAtHide>>
    /\ UNCHANGED NotPlayer

YpNext ==
    \/ ypMount
    \/ ypApiLoaded
    \/ ypVideoIdChanges
    \/ ypOnReady
    \/ ypHandleClick
    \/ ypHandleMessage
    \/ ypPlayerProgress
    \/ ypTabHidden
    \/ ypTabVisible
    \/ ypUnmount

\* ---- Properties of YouTubePlayer ----

\* C29: when the tab becomes hidden the player is paused; when it becomes
\* visible again the handler resumes playback only if the video was playing
\* before the tab was hidden, so a video the user had paused stays paused.
\* The handler resumes whenever getPlayerState() is 2.
ResumesOnlyWhatWasPlaying ==
    [][/\ (~docHidden /\ docHidden') => ypState' \notin {PLAYING, BUFFERING}
       /\ (docHidden /\ ~docHidden' /\ ypState = PAUSED /\ ypState' = PLAYING)
            => playingAtHide]_vars

(***************************************************************************)
(* YouTubeAPIManager.load() (src/src/components/YouTubeShortsCarousel.jsx) *)
(* called by the mount effect and by the creation effect of the            *)
(* YouTubePlayers, any number of times before and after the provider       *)
(* script has called window.onYouTubeIframeAPIReady.                       *)
(***************************************************************************)
\* Bound of the model.
MaxLoads == 4

\* new YouTubeAPIManager()
ApiInit ==
    /\ apiIsLoaded = FALSE
    /\ apiIsLoading = FALSE
    /\ apiCallbacks = << >>
    /\ apiScripts = 0
    /\ apiReadyCalls = 0
    /\ apiPromises = << >>

\* load() without the isLoading test: every call made before the provider
\* is ready inserts a script tag (mutation).
loadNoLoadingFlag ==
    /\ Len(apiPromises) < MaxLoads
    /\ \E awaited \in BOOLEAN :
         LET k == Len(apiPromises) + 1
         IN IF apiIsLoaded
            THEN /\ apiPromises' = Append(apiPromises,
                        [made |-> "resolve", resolved |-> TRUE,
                         awaited |-> awaited, continued |-> FALSE])
                 /\ UNCHANGED <<apiIsLoading, apiCallbacks, apiScripts>>
            ELSE /\ apiIsLoading' = TRUE
                 /\ apiCallbacks' = Append(apiCallbacks, k)
                 /\ apiScripts' = apiScripts + 1
                 /\ apiPromises' = Append(apiPromises,
                        [made |-> "new", resolved |-> FALSE,
                         awaited |-> awaited, continued |-> FALSE])
    /\ UNCHANGED <<apiIsLoaded, apiReadyCalls>>
    /\ UNCHANGED NotLoader

\* load(), by a caller that awaits the promise (the creation effect) or
\* drops it (the mount effect)
load ==
    /\ Len(apiPromises) < MaxLoads
    /\ \E awaited \in BOOLEAN :
         LET k == Len(apiPromises) + 1
         IN IF apiIsLoaded
            THEN /\ apiPromises' = Append(apiPromises,
                        [made |-> "resolve", resolved |-> TRUE,
                         awaited |-> awaited, continued |-> FALSE])
                 /\ UNCHANGED <<apiIsLoading, apiCallbacks, apiScripts>>
            ELSE IF apiIsLoading
            THEN /\ apiCallbacks' = Append(apiCallbacks, k)
                 /\ apiPromises' = Append(apiPromises,
                        [made |-> "new", resolved |-> FALSE,
                         awaited |-> awaited, continued |-> FALSE])
                 /\ UNCHANGED <<apiIsLoading, apiScripts>>
            ELSE /\ apiIsLoading' = TRUE
                 /\ apiCallbacks' = Append(apiCallbacks, k)
                 /\ apiScripts' = apiScripts + 1
                 /\ apiPromises' = Append(apiPromises,
                        [made |-> "new", resolved |-> FALSE,
                         awaited |-> awaited, continued |-> FALSE])
    /\ UNCHANGED <<apiIsLoaded, apiReadyCalls>>
    /\ UNCHANGED NotLoader

\* window.onYouTubeIframeAPIReady, called by an inserted script once it has
\* loaded: callbacks.forEach(cb => cb()), callbacks = []
apiReadyCallback ==
    /\ apiReadyCalls < apiScripts
    /\ apiReadyCalls' = apiReadyCalls + 1
    /\ apiIsLoaded' = TRUE
    /\ apiIsLoading' = FALSE
    /\ apiPromises' = [k \in 1..Len(apiPromises) |->
                          IF \E j \in 1..Len(apiCallbacks) : apiCallbacks[j] = k
                          THEN [apiPromises[k] EXCEPT !.resolved = TRUE]
                          ELSE apiPromises[k]]
    /\ apiCallbacks' = << >>
    /\ UNCHANGED apiScripts
    /\ UNCHANGED NotLoader

\* The code after await ytManager.load() of a caller runs, its promise
\* being resolved.
awaitContinues ==
    /\ \E k \in 1..Len(apiPromises) :
         /\ apiPromises[k].awaited
         /\ apiPromises[k].resolved
         /\ ~apiPromises[k].continued
         /\ apiPromises' = [apiPromises EXCEPT ![k].continued = TRUE]
    /\ UNCHANGED <<apiIsLoaded, apiIsLoading, apiCallbacks, apiScripts,
                   apiReadyCalls>>
    /\ UNCHANGED NotLoader

ApiNext ==
    \/ load
    \/ apiReadyCallback
    \/ awaitContinues

\* ---- Properties of YouTubeAPIManager.load() ----

\* C35: however many times load() is called, before or after the provider
\* is ready, the provider script is inserted at most once; once the provider
\* is ready every promise load() has returned is resolved, and a promise
\* returned after that is resolved when it is returned; before that, the
\* promises wait in callbacks.
LoadIsIdempotent ==
    /\ apiScripts <= 1
    /\ apiIsLoaded => \A k \in 1..Len(apiPromises) : apiPromises[k].resolved
    /\ ~apiIsLoaded =>
          \A k \in 1..Len(apiPromises) :
              /\ ~apiPromises[k].resolved
              /\ \E j \in 1..Len(apiCallbacks) : apiCallbacks[j] = k

\* C35 witness: two calls before the provider was ready and one after it,
\* one script, and the three promises resolved.
ThreeLoadsOneScript ==
    /\ apiIsLoaded
    /\ apiScripts = 1
    /\ Len(apiPromises) = 3
    /\ apiPromises[1].made = "new" /\ apiPromises[2].made = "new"
    /\ apiPromises[3].made = "resolve"
    /\ \A k \in 1..3 : apiPromises[k].resolved

---------------------------------------------------------------------------

\* The variables of the other components, at rest.
CarIdle ==
    /\ itemsLength = 0 /\ loop = FALSE /\ autoplay = FALSE
    /\ pauseOnHover = FALSE /\ currentIndex = 0 /\ isDragging = FALSE
    /\ isHovered = FALSE /\ y = 0 /\ settles = << >> /\ overtaken = << >>

PreIdle ==
    /\ maxCacheSize = 1 /\ cache = << >> /\ loadingPromises = [u \in Urls |-> 0]
    /\ ops = [o \in OpIds |-> NoOp] /\ ocItemsLength = 0 /\ ocCurrentIndex = 0
    /\ ocIsDragging = FALSE /\ ocSettles = << >> /\ loadedVideos = {0}
    /\ tasks = {} /\ ocMounted = FALSE /\ ocCommits = 0
    /\ touchOrder = << >>
    /\ preloadedSinceClear = FALSE

VidIdle ==
    /\ viItemsLength = 0 /\ viCurrentIndex = 0 /\ viIsDragging = FALSE
    /\ viSettles = << >> /\ viCommits = 0 /\ viLoadedVideos = {0}
    /\ preloading = {} /\ isReady = {} /\ hasError = {}

ResIdle ==
    /\ exUrl = << >> /\ exId = Null /\ exDone = FALSE /\ exAgain = Null
    /\ exItems = << >> /\ exVideoIds = << >> /\ exMemoDone = FALSE

AppIdle ==
    /\ appCategory = "Stories" /\ appLoading = TRUE /\ appData = NoData
    /\ appError = "null" /\ appPending = [c \in CATEGORIES |-> 0]
    /\ appQueued = FALSE

YpIdle ==
    /\ ypApiReady = FALSE /\ ypVideoId = "a" /\ ypPlayer = FALSE
    /\ ypReady = FALSE /\ ypState = UNSTARTED /\ docHidden = FALSE
    /\ ypMounted = FALSE /\ playingAtHide = FALSE

ApiIdle ==
    /\ apiIsLoaded = FALSE /\ apiIsLoading = FALSE /\ apiCallbacks = << >>
    /\ apiScripts = 0 /\ apiReadyCalls = 0 /\ apiPromises = << >>

GesIdle ==
    /\ gesIndex = 0 /\ gesOffset = 0 /\ gesVelocity = 0 /\ gesLength = 0
    /\ gesLoop = FALSE /\ carNewIndex = NotReleased /\ ytNewIndex = NotReleased
    /\ ocNewIndex = NotReleased /\ carAutoIndex = NotReleased

WinIdle ==
    /\ winLength = 0 /\ winIndex = 0
    /\ ocVisible = NotComputed /\ ytVisible = NotComputed
    /\ ocPreloads = NotComputed

YtIdle ==
    /\ ytLength = 0 /\ ytCurrentIndex = 0 /\ ytIsDragging = FALSE
    /\ ytSettles = << >> /\ ytCommits = 0 /\ ytIsMuted = TRUE
    /\ ytMounted = FALSE /\ ytIsLoaded = FALSE /\ callbacks = << >>
    /\ players = [i \in YtItems |-> 0]
    /\ playerState = [i \in YtItems |-> "facade"]
    /\ player = [i \in YtItems |-> 0]
    /\ hasCleanup = [i \in YtItems |-> FALSE]
    /\ handles = [o \in HandleIds |-> NoHandle]
    /\ uncaught = FALSE /\ faults = 0

\* Carousel alone.
InitCarousel == CarInit /\ PreIdle /\ YtIdle /\ VidIdle /\ WinIdle /\ GesIdle /\ ResIdle /\ AppIdle /\ YpIdle /\ ApiIdle

SpecCarousel == InitCarousel /\ [][CarNext]_vars

\* OptimizedCarousel with its preloader alone.
InitPreloader == PreInit /\ CarIdle /\ YtIdle /\ VidIdle /\ WinIdle /\ GesIdle /\ ResIdle /\ AppIdle /\ YpIdle /\ ApiIdle

SpecPreloader == InitPreloader /\ [][PreNext]_vars

\* YouTubeShortsCarousel with its players and the API manager alone.
InitYouTube == YtInit /\ CarIdle /\ PreIdle /\ VidIdle /\ WinIdle /\ GesIdle /\ ResIdle /\ AppIdle /\ YpIdle /\ ApiIdle

SpecYouTube == InitYouTube /\ [][YtNext]_vars

\* The same with what the program itself schedules: a settle animation that
\* was started ends.  The provider (script load, notifications) and the user
\* owe nothing.
SpecYouTubeFair == SpecYouTube /\ WF_vars(ytSettleComplete)

\* OptimizedCarousel with its VideoItems alone.
InitVideoItems == VidInit /\ CarIdle /\ PreIdle /\ YtIdle /\ WinIdle /\ GesIdle /\ ResIdle /\ AppIdle /\ YpIdle /\ ApiIdle

SpecVideoItems == InitVideoItems /\ [][VidNext]_vars

\* The window computations alone.
InitWindow == WinInit /\ CarIdle /\ PreIdle /\ YtIdle /\ VidIdle /\ GesIdle /\ ResIdle /\ AppIdle /\ YpIdle /\ ApiIdle

SpecWindow == InitWindow /\ [][WinNext]_vars

\* The getNextIndex functions alone.
InitGesture == GesInit /\ CarIdle /\ PreIdle /\ YtIdle /\ VidIdle /\ WinIdle /\ ResIdle /\ AppIdle /\ YpIdle /\ ApiIdle

SpecGesture == InitGesture /\ [][GesNext]_vars

\* extractYouTubeId and the videoIds memo alone.
InitResolver == ResInit /\ CarIdle /\ PreIdle /\ YtIdle /\ VidIdle /\ WinIdle /\ GesIdle /\ AppIdle /\ YpIdle /\ ApiIdle

SpecResolver == InitResolver /\ [][ResNext]_vars

\* App alone.
InitApp == AppInit /\ CarIdle /\ PreIdle /\ YtIdle /\ VidIdle /\ WinIdle /\ GesIdle /\ ResIdle /\ YpIdle /\ ApiIdle

SpecApp == InitApp /\ [][AppNext]_vars

\* YouTubePlayer alone.
InitPlayer == YpInit /\ CarIdle /\ PreIdle /\ YtIdle /\ VidIdle /\ WinIdle /\ GesIdle /\ ResIdle /\ AppIdle /\ ApiIdle

SpecPlayer == InitPlayer /\ [][YpNext]_vars

\* YouTubeAPIManager.load() alone.
InitLoader == ApiInit /\ CarIdle /\ PreIdle /\ YtIdle /\ VidIdle /\ WinIdle /\ GesIdle /\ ResIdle /\ AppIdle /\ YpIdle

SpecLoader == InitLoader /\ [][ApiNext]_vars


=============================================================================
